---- MODULE Spec2Model ----
(***************************************************************************)
(* Model of the QIC-S rotation-curve analysis scripts.                     *)
(*                                                                         *)
(* Every script is a sequential program.  The variable `script' says which *)
(* program a behaviour runs; the variables of the other programs stay at   *)
(* their idle values.  Floating-point values are integers in a stated      *)
(* fixed-point unit, extended with the IEEE specials NaN, +Inf and -Inf.   *)
(***************************************************************************)
EXTENDS Integers, Sequences, FiniteSets, TLC

VARIABLES
    script,        \* the program this behaviour runs
    \* ---- phase_analysis.py / plot_scaling_law.py / plot_histogram.py ----
    files,         \* glob result: the *_rotmod.dat files, in order
    fidx,          \* position of the `for f in files' loop of phase_analysis.main
    results,       \* phase_analysis.main: the list `results'
    ppc,           \* phase_analysis.main: "loop", "raised", "nodata", "done"
    csv,           \* rows of results/QIC_S_Result_N170.csv (<<>> while absent)
    n_total,       \* phase_analysis.main statistics
    n_order,
    n_chaos,
    sidx,          \* plot_scaling_law.main: position of its loop over files
    scaling_data,  \* plot_scaling_law.main: the list `scaling_data'
    hist,          \* plot_histogram: [done, n_order, n_chaos, n]
    csv_cols,      \* the columns of the CSV on disk ({} while absent)
    spc,           \* plot_scaling_law.main: "start", "nofile", "loop", "raised", "done"
    scaling_fit,   \* plot_scaling_law.main: [done, slope, r2] of the linregress call
    hpc,           \* plot_histogram: "start", "nofile", "error", "raised", "done"
    written,       \* the output files these programs have written
    \* ---- qics_acceleration, the three variants ----
    g_in,          \* the baryonic acceleration handed to the function
    qres,          \* [done, si, analyzer, v3911]: what each variant returned
    \* ---- QICS_ZeroParam_Analysis.py (archive/, data/), qics_analyzer.py ----
    targets,       \* the target list / the command-line files, in order
    tidx,          \* position of the loop over the targets
    zresults,      \* the list `results' (`results_list' of qics_analyzer.main)
    zlocals,       \* locals of the latest analysis call: [called, loaded, v_bar_sq, g_bar, v_pred]
    zpc,           \* "loop", "nodata", "done"
    zsummary,      \* what the code after the loop derives from the sorted results
    zwritten,      \* the output files the script has written
    \* ---- bootstrap_analysis.py ----
    agg_csv,           \* results/QIC_S_Result_N170.csv as this script finds it
    rng,               \* the state of the global NumPy generator
    rng_before,        \* its state when bootstrap_analysis was last called
    all_r,             \* the arrays load_data returned, the arguments of
    all_d,             \*   bootstrap_analysis and outlier_sensitivity_test
    call,              \* which call of bootstrap_analysis is running: 1, 2
    first_ret,         \* what the first call returned, kept for comparison
    linregress_raises, \* the installed scipy raises on identical x values
    n_bootstrap,       \* the argument of bootstrap_analysis
    log_r,             \* np.log10(all_r)
    log_d,             \* np.log10(all_d)
    boot_i,            \* iterations of the resampling loop completed
    indices,           \* the index vector of the latest iteration
    boot_log_r,        \* log_r[indices]
    boot_log_d,        \* log_d[indices]
    bootstrap_slopes,
    bootstrap_r2s,
    bpc,               \* "start", "nofile", "loop", "raised", "done" (bootstrap_analysis
                       \*   has returned), "tested" (so has the outlier test),
                       \*   "keyerror", "test_raised", "plot_raised", "end"
    boot_ret,          \* the dict bootstrap_analysis returns
    n_remove,          \* the argument of outlier_sensitivity_test
    out_res,           \* outlier_sensitivity_test: [done, raised, original, residuals, order, remove]
    boot_written,      \* the output files bootstrap_analysis.main has written
    \* ---- calculate_slope on the logarithms of a dataset ----
    fit_r,             \* the dataset: R
    fit_d,             \*              D_eff
    fit_res,           \* [done, raises, slope, r2, intercept]
    \* ---- an acceleration converted to SI units and back ----
    u_site,            \* the script whose two conversion lines run
    u_g,               \* the acceleration in (km/s)^2/kpc
    u_si,              \* [done, val, ops]: its value in m/s^2
    u_back,            \* [done, val, ops]: that value back in (km/s)^2/kpc
    \* ---- data/qic_s_analysis.py ----
    land_file,         \* NGC2403_rotmod.dat in the working directory
    land_pc,           \* "start", "loaded", "analysed", "done" or how it ended
    land_mode,         \* "none", "real", "simulation", "read_failed"
    land_r,            \* [defined, val]: the global name r
    land_v_obs,        \* [defined, val]: the global name v_obs
    land_v_baryon,     \* [defined, val]: the global name v_baryon
    H_eff,             \* the cumulative sum, in 0.01 (km/s)^2
    H_eff_norm,        \* H_eff / max(H_eff), in thousandths
    land_written       \* the files the script has saved

phaseVars == <<files, fidx, results, ppc, csv, n_total, n_order, n_chaos,
               sidx, scaling_data, hist, csv_cols, spc, scaling_fit, hpc,
               written>>

qicsVars == <<g_in, qres>>

datVars == <<targets, tidx, zresults, zlocals, zpc, zsummary, zwritten>>

bootVars == <<agg_csv, rng, rng_before, all_r, all_d, call, first_ret, linregress_raises, n_bootstrap, log_r, log_d, boot_i,
              indices, boot_log_r, boot_log_d, bootstrap_slopes,
              bootstrap_r2s, bpc, boot_ret, n_remove, out_res, boot_written>>

fitVars == <<fit_r, fit_d, fit_res>>

unitVars == <<u_site, u_g, u_si, u_back>>

landVars == <<land_file, land_pc, land_mode, land_r, land_v_obs, land_v_baryon,
              H_eff, H_eff_norm, land_written>>

vars == <<script, phaseVars, qicsVars, datVars, bootVars, fitVars, unitVars,
          landVars>>

\* What a script leaves alone: the variables of the other scripts
notOfPhase == <<qicsVars, datVars, bootVars, fitVars, unitVars, landVars>>
notOfQics  == <<phaseVars, datVars, bootVars, fitVars, unitVars, landVars>>
notOfDat   == <<phaseVars, qicsVars, bootVars, fitVars, unitVars, landVars>>
notOfBoot  == <<phaseVars, qicsVars, datVars, fitVars, unitVars, landVars>>
notOfFit   == <<phaseVars, qicsVars, datVars, bootVars, unitVars, landVars>>
notOfLand  == <<phaseVars, qicsVars, datVars, bootVars, fitVars, unitVars>>
notOfUnit  == <<phaseVars, qicsVars, datVars, bootVars, fitVars, landVars>>

(***************************************************************************)
(* Floating point                                                          *)
(***************************************************************************)
\* IEEE specials.  Every comparison goes through FLt/FGt/FGe, which are
\* false on NaN; PInf and NInf order correctly as integers.
NaN  == -2000000001
PInf ==  2000000000
NInf == -2000000000

IsNaN(x)    == x = NaN
IsFinite(x) == x # NaN /\ x # PInf /\ x # NInf

FLt(a, b) == ~IsNaN(a) /\ ~IsNaN(b) /\ a < b
FGt(a, b) == ~IsNaN(a) /\ ~IsNaN(b) /\ a > b
FGe(a, b) == ~IsNaN(a) /\ ~IsNaN(b) /\ a >= b

Sign(x) == IF x > 0 THEN 1 ELSE IF x < 0 THEN -1 ELSE 0

\* a * b
FMul(a, b) ==
    IF IsNaN(a) \/ IsNaN(b) THEN NaN
    ELSE IF IsFinite(a) /\ IsFinite(b) THEN a * b
    ELSE IF a = 0 \/ b = 0 THEN NaN
    ELSE IF Sign(a) * Sign(b) > 0 THEN PInf ELSE NInf

\* floor(a * b / c) for a, b >= 0, c > 0, without leaving 32 bits
MulDiv(a, b, c) == (a \div c) * b + ((a % c) * b) \div c

RECURSIVE SumSeq(_)
SumSeq(s) == IF s = <<>> THEN 0 ELSE Head(s) + SumSeq(Tail(s))

Map(s, Op(_)) == [i \in 1..Len(s) |-> Op(s[i])]

(***************************************************************************)
(* phase_analysis.py                                                       *)
(***************************************************************************)
MIN_POINTS == 5
\* THRESHOLD = 0.5, in millionths (the unit of the phase metric M below)
THRESHOLD == 500000
\* (ln 2)^2 in millionths: np.log is the natural logarithm
LN2SQ == 480453

\* One line of a rotmod file: radius, observed velocity, and the remaining
\* columns (rest), which matter only through dropna().
MkRow(r, v) == [r |-> r, v |-> v, rest |-> 0]

\* data = df.apply(pd.to_numeric, errors='coerce').dropna()
\* A cell that does not parse becomes NaN; a row holding a NaN is dropped.
DropNa(rows) ==
    SelectSeq(rows, LAMBDA w : ~IsNaN(w.r) /\ ~IsNaN(w.v) /\ ~IsNaN(w.rest))

\* mask = (r > 0) & (v > 0)
MaskStrict(w) == FGt(w.r, 0) /\ FGt(w.v, 0)
\* A filter that lets zeros through
MaskNonNegative(w) == FGe(w.r, 0) /\ FGe(w.v, 0)
Mask(w) == MaskStrict(w)

Filtered(rows) == SelectSeq(DropNa(rows), Mask)

\* log2 of a positive finite cell; the model's positive cells are powers of 2,
\* so that the logarithm is exact
RECURSIVE Log2(_)
Log2(x) == IF x <= 1 THEN 0 ELSE 1 + Log2(x \div 2)

\* np.log((v ** 2) / r) of one filtered sample, in units of ln 2.
\* inf/inf is NaN, log(inf) = inf, log(0) = -inf.
LogGradH(w) ==
    IF w.v = PInf /\ w.r = PInf THEN NaN
    ELSE IF w.v = PInf THEN PInf
    ELSE IF w.r = PInf THEN NInf
    ELSE 2 * Log2(w.v) - Log2(w.r)

\* np.var(x): population variance; NaN as soon as one entry is not finite
\* (inf - inf in the deviation from the mean).  xs in units of ln 2, the
\* result in millionths.
NpVar(xs) ==
    IF \E i \in 1..Len(xs) : ~IsFinite(xs[i]) THEN NaN
    ELSE LET n  == Len(xs)
             s1 == SumSeq(xs)
             s2 == SumSeq([i \in 1..n |-> xs[i] * xs[i]])
         IN  MulDiv(LN2SQ, n * s2 - s1 * s1, n * n)

\* The index of the last occurrence of the maximum
ArgMaxLast(rs) ==
    CHOOSE i \in 1..Len(rs) :
        /\ \A j \in 1..Len(rs) : rs[j] <= rs[i]
        /\ \A j \in (i+1)..Len(rs) : rs[j] < rs[i]
\* np.argmax: index of the first occurrence of the maximum
ArgMax(rs) ==
    CHOOSE i \in 1..Len(rs) :
        /\ \A j \in 1..Len(rs) : rs[j] <= rs[i]
        /\ \A j \in 1..(i-1) : rs[j] < rs[i]

NoMetrics == [some |-> FALSE, M |-> 0, R |-> 0, D_eff |-> 0]

\* The gate one sample too lenient
MinPointsGateOffByOne(kept) == Len(kept) < MIN_POINTS - 1
\* `if len(r) < MIN_POINTS: return None'
MinPointsGate(kept) == Len(kept) < MIN_POINTS

\* calculate_galaxy_metrics(df).  A table with fewer than two columns raises
\* IndexError at data.iloc[:, 1], which the function's own except turns
\* into None.
calculate_galaxy_metrics(df) ==
    IF df.cols < 2 THEN NoMetrics
    ELSE LET kept == Filtered(df.rows) IN
         IF MinPointsGate(kept) THEN NoMetrics
         ELSE LET idx_max == ArgMax(Map(kept, LAMBDA w : w.r))
                  r_max   == kept[idx_max].r
                  v_at    == kept[idx_max].v
              IN  [some  |-> TRUE,
                   M     |-> NpVar(Map(kept, LogGradH)),
                   R     |-> r_max,
                   D_eff |-> FMul(r_max, v_at)]

\* A read failure that is not caught and leaves the loop
ReadFailureAborts(i, f) == [kind |-> "abort"]
\* read_csv raising is caught by the except of the loop body, which prints
\* and continues
ReadFailure(i, f) == [kind |-> "skip"]

\* The body of `for f in files' in phase_analysis.main: what one iteration
\* does with file number i
PhaseBody(i, f) ==
    IF f.kind = "unreadable" THEN ReadFailure(i, f)
    ELSE LET metrics == calculate_galaxy_metrics(f) IN
         IF metrics.some
         THEN [kind |-> "row",
               row  |-> [Galaxy |-> i, M |-> metrics.M,
                         R |-> metrics.R, D_eff |-> metrics.D_eff]]
         ELSE [kind |-> "skip"]

\* len(res_df[res_df['M'] < THRESHOLD]) and len(res_df[res_df['M'] >= THRESHOLD])
CountOrder(rows) == Cardinality({k \in 1..Len(rows) : FLt(rows[k].M, THRESHOLD)})
CountChaos(rows) == Cardinality({k \in 1..Len(rows) : FGe(rows[k].M, THRESHOLD)})

PhaseLoopStep ==
    /\ script = "phase_analysis"
    /\ UNCHANGED notOfPhase
    /\ ppc = "loop"
    /\ fidx <= Len(files)
    /\ LET out == PhaseBody(fidx, files[fidx]) IN
         /\ results' = IF out.kind = "row" THEN Append(results, out.row) ELSE results
         /\ ppc' = IF out.kind = "abort" THEN "raised" ELSE "loop"
         /\ fidx' = IF out.kind = "abort" THEN fidx ELSE fidx + 1
    /\ UNCHANGED <<script, files, csv, n_total, n_order, n_chaos, sidx,
                   scaling_data, hist, csv_cols, spc, scaling_fit, hpc, written>>

\* res_df = pd.DataFrame(results)[['Galaxy', 'M', 'R', 'D_eff']]
CsvColumns == {"Galaxy", "M", "R", "D_eff"}

MissingColumnIgnored(cols, read) == FALSE

\* df[c] on a table read by pd.read_csv raises KeyError when the table has
\* no column c: cols are the table's columns, read the ones the code indexes
MissingColumn(cols, read) == ~(read \subseteq cols)

\* sns.histplot(res_df['M'], bins=bins, kde=True): on an M that is not
\* finite, or on fewer than two different values (a density estimate of no
\* variance), it depends on the installed seaborn whether the call raises.
HistplotMayRaise(rows) ==
    \/ \E k \in 1..Len(rows) : ~IsFinite(rows[k].M)
    \/ Cardinality({rows[k].M : k \in 1..Len(rows)}) < 2

\* After the loop: `if not results: return', else to_csv, the statistics and
\* the histogram.  ppc = "done" says that the table has been written.
PhaseFinish ==
    /\ script = "phase_analysis"
    /\ UNCHANGED notOfPhase
    /\ ppc = "loop"
    /\ fidx > Len(files)
    /\ IF results = <<>>
       THEN /\ ppc' = "nodata"
            /\ UNCHANGED <<csv, n_total, n_order, n_chaos, csv_cols, written>>
       ELSE /\ ppc' = "done"
            /\ csv' = results
            /\ csv_cols' = CsvColumns
            /\ n_total' = Len(results)
            /\ n_order' = CountOrder(results)
            /\ n_chaos' = CountChaos(results)
            /\ written' \in IF HistplotMayRaise(results)
                            THEN {written \cup {"csv"}, written \cup {"csv", "Fig2"}}
                            ELSE {written \cup {"csv", "Fig2"}}
    /\ UNCHANGED <<script, files, fidx, results, sidx, scaling_data, hist, spc,
                   scaling_fit, hpc>>

(***************************************************************************)
(* plot_scaling_law.py                                                     *)
(***************************************************************************)
NoProps == [some |-> FALSE, R |-> 0, D_eff |-> 0]

\* calculate_galaxy_properties(filepath): reads the file itself; the bare
\* except turns every failure into None.
calculate_galaxy_properties(f) ==
    IF f.kind = "unreadable" \/ f.cols < 2 THEN NoProps
    ELSE LET kept == Filtered(f.rows) IN
         IF Len(kept) < MIN_POINTS THEN NoProps
         ELSE LET rs    == Map(kept, LAMBDA w : w.r)
                  r_max == rs[ArgMax(rs)]          \* np.max(r)
                  v_at  == kept[ArgMax(rs)].v      \* v[np.argmax(r)]
              IN  [some |-> TRUE, R |-> r_max, D_eff |-> FMul(r_max, v_at)]

InCsv(i) == \E k \in 1..Len(csv) : csv[k].Galaxy = i
CsvM(i)  == (CHOOSE k \in 1..Len(csv) : csv[k].Galaxy = i)

\* One iteration of `for f in files' in plot_scaling_law.main, run after
\* phase_analysis.main has written the table, or on its own on the table it
\* finds.
ScalingLoopStep ==
    /\ script \in {"phase_analysis", "plot_scaling_law"}
    /\ UNCHANGED notOfPhase
    /\ script = "phase_analysis" => ppc = "done"
    /\ spc = "loop"
    /\ sidx <= Len(files)
    /\ LET props == calculate_galaxy_properties(files[sidx]) IN
         scaling_data' =
             IF InCsv(sidx) /\ props.some
             THEN Append(scaling_data,
                         [Galaxy |-> sidx, R |-> props.R, D_eff |-> props.D_eff,
                          M |-> csv[CsvM(sidx)].M])
             ELSE scaling_data
    /\ sidx' = sidx + 1
    /\ UNCHANGED <<script, files, fidx, results, ppc, csv, n_total, n_order,
                   n_chaos, hist, csv_cols, spc, scaling_fit, hpc, written>>

(***************************************************************************)
(* plot_histogram.py                                                       *)
(***************************************************************************)
NoHist == [done |-> FALSE, n_order |-> 0, n_chaos |-> 0, n |-> 0]

\* plot_histogram(), run after phase_analysis.main has written the table, or
\* on its own on the table it finds: no file, return; a table without the
\* column M, the except prints and returns; then
\* order_data = m_values[m_values < 0.5]; chaos_data = m_values[m_values >= 0.5]
\* and the shares n_order/len(df), n_chaos/len(df), a ZeroDivisionError on a
\* table of no rows; then savefig.
PlotHistogram ==
    /\ script \in {"phase_analysis", "plot_histogram"}
    /\ UNCHANGED notOfPhase
    /\ script = "phase_analysis" => ppc = "done"
    /\ hpc = "start"
    /\ ~hist.done
    /\ IF csv_cols = {}
       THEN hpc' = "nofile" /\ UNCHANGED <<hist, written>>
       ELSE IF MissingColumn(csv_cols, {"M"})
       THEN hpc' = "error" /\ UNCHANGED <<hist, written>>
       ELSE IF Len(csv) = 0
       THEN hpc' = "raised" /\ UNCHANGED <<hist, written>>
       ELSE /\ hist' = [done    |-> TRUE,
                        n_order |-> CountOrder(csv),
                        n_chaos |-> CountChaos(csv),
                        n       |-> Len(csv)]
            /\ hpc' = "done"
            /\ written' = written \cup {"Figure_2"}
    /\ UNCHANGED <<script, files, fidx, results, ppc, csv, n_total, n_order,
                   n_chaos, sidx, scaling_data, csv_cols, spc, scaling_fit>>

(***************************************************************************)
(* qics_analyzer.py: classification                                        *)
(***************************************************************************)
\* QICSAnalyzer.classify_phase(phase_metric): 4 (chaos) or 5 (order)
classify_phase(phase_metric) ==
    IF FGe(phase_metric, THRESHOLD) THEN 4 ELSE 5

(***************************************************************************)
(* Claims about the phase pipeline                                         *)
(***************************************************************************)
\* The samples of file f that survive cleaning and the positivity filter,
\* counted on the raw table.
Survivors(f) ==
    IF f.kind = "table" /\ f.cols >= 2
    THEN {k \in 1..Len(f.rows) :
            /\ f.rows[k].r # NaN /\ f.rows[k].v # NaN /\ f.rows[k].rest # NaN
            /\ f.rows[k].r > 0 /\ f.rows[k].v > 0}
    ELSE {}
\* The samples with radius > 0 and velocity > 0, whatever the other columns.
Positive(f) ==
    {k \in 1..Len(f.rows) :
        /\ f.rows[k].r # NaN /\ f.rows[k].v # NaN
        /\ f.rows[k].r > 0 /\ f.rows[k].v > 0}

HasRow(rows, i) == \E k \in 1..Len(rows) : rows[k].Galaxy = i
RowOf(rows, i)  == rows[CHOOSE k \in 1..Len(rows) : rows[k].Galaxy = i]

\* C2: a galaxy with fewer than 5 samples of positive radius and velocity
\* yields None without raising and is no row of the aggregate table (nor of
\* the scaling data); with 5 or more surviving samples its row is produced.
C2_MinPointsGate ==
    /\ ppc # "raised"
    /\ \A i \in 1..(fidx - 1) :
         /\ Cardinality(Positive(files[i])) < MIN_POINTS => ~HasRow(results, i)
         /\ Cardinality(Survivors(files[i])) >= MIN_POINTS => HasRow(results, i)
    /\ ppc = "done" =>
         \A i \in 1..(sidx - 1) :
           /\ Cardinality(Positive(files[i])) < MIN_POINTS => ~HasRow(scaling_data, i)
           /\ Cardinality(Survivors(files[i])) >= MIN_POINTS => HasRow(scaling_data, i)

\* A list with a galaxy of exactly 4 positive samples, excluded, beside a
\* galaxy of 5, included, both stages having run over them.
C2_Witness ==
    /\ ppc = "done" /\ sidx > Len(files)
    /\ \E i, j \in 1..Len(files) :
         /\ Cardinality(Positive(files[i])) = 4
         /\ ~HasRow(results, i) /\ ~HasRow(scaling_data, i)
         /\ Cardinality(Survivors(files[j])) = 5
         /\ HasRow(results, j) /\ HasRow(scaling_data, j)

\* C3 (as claimed): every row of the table is in exactly one class: the
\* counts of phase_analysis.main and of plot_histogram add up to the number
\* of rows, and classify_phase calls a row ordered (5) iff M < 0.5 and
\* chaotic (4) iff M >= 0.5.
C3_OneClassPerRow ==
    ppc = "done" =>
      /\ n_order + n_chaos = n_total
      /\ hist.done => hist.n_order + hist.n_chaos = hist.n
      /\ \A k \in 1..Len(csv) :
           /\ classify_phase(csv[k].M) = 5 <=> FLt(csv[k].M, THRESHOLD)
           /\ classify_phase(csv[k].M) = 4 <=> FGe(csv[k].M, THRESHOLD)

\* The velocity column multiplied by k
ScaleV(rows, k) == [i \in 1..Len(rows) |-> [rows[i] EXCEPT !.v = FMul(k, rows[i].v)]]

\* np.var(np.log(v**2 / r)) over the filtered samples of a table
MetricOf(rows) == NpVar(Map(Filtered(rows), LogGradH))

\* File i has been through the loop and has at least MIN_POINTS samples of
\* positive radius and velocity
Measured(i) ==
    /\ script = "phase_analysis"
    /\ i \in 1..Len(files) /\ i < fidx
    /\ files[i].kind = "table" /\ files[i].cols >= 2
    /\ Len(Filtered(files[i].rows)) >= MIN_POINTS

AllFinite(rows) ==
    \A j \in 1..Len(rows) : IsFinite(rows[j].r) /\ IsFinite(rows[j].v)

Scalings == {2, 4, 8}

\* The metric written for file i is a number, is not negative, and is the
\* metric of the same radii with the velocities multiplied by any k
ScaleInvariant(i) ==
    /\ HasRow(results, i)
    /\ ~IsNaN(RowOf(results, i).M)
    /\ FGe(RowOf(results, i).M, 0)
    /\ \A k \in Scalings :
         MetricOf(ScaleV(files[i].rows, k)) = RowOf(results, i).M

\* C22: the phase metric is invariant under a uniform velocity scaling: for
\* radii r > 0 and velocities v > 0 (at least 5 samples) and any k > 0 the M
\* of (r, k*v) equals the M of (r, v), and M is never negative.
C22_ScaleInvariant ==
    \A i \in 1..Len(files) : Measured(i) => ScaleInvariant(i)

\* The same for the files whose positive samples are all finite
C22_FiniteSamples ==
    \A i \in 1..Len(files) :
       Measured(i) /\ AllFinite(Filtered(files[i].rows)) => ScaleInvariant(i)

\* C4: R is the maximum radius of the filtered samples, D_eff is R times the
\* velocity at the first sample reaching it, and calculate_galaxy_properties
\* returns the same pair as calculate_galaxy_metrics.
FirstAtMax(f) ==
    CHOOSE k \in Survivors(f) :
        /\ \A j \in Survivors(f) : f.rows[j].r <= f.rows[k].r
        /\ \A j \in Survivors(f) : j < k => f.rows[j].r < f.rows[k].r

C4_MaxRadius ==
    /\ \A i \in 1..(fidx - 1) :
         HasRow(results, i) =>
           LET f == files[i]
               k == FirstAtMax(f)
           IN  /\ RowOf(results, i).R = f.rows[k].r
               /\ RowOf(results, i).D_eff = FMul(f.rows[k].r, f.rows[k].v)
    /\ \A i \in 1..(sidx - 1) :
         HasRow(scaling_data, i) =>
           /\ RowOf(scaling_data, i).R = RowOf(results, i).R
           /\ RowOf(scaling_data, i).D_eff = RowOf(results, i).D_eff

\* A galaxy whose samples are not sorted by radius and whose maximum radius
\* occurs twice, with different velocities, has gone through both stages.
C4_Witness ==
    /\ ppc = "done" /\ sidx > Len(files)
    /\ \E i \in 1..Len(files) :
         /\ HasRow(results, i) /\ HasRow(scaling_data, i)
         /\ \E a, b \in Survivors(files[i]) :
              /\ a < b
              /\ files[i].rows[a].r = files[i].rows[b].r
              /\ files[i].rows[a].v # files[i].rows[b].v
              /\ \A j \in Survivors(files[i]) : files[i].rows[j].r <= files[i].rows[a].r
         /\ \E a, b \in Survivors(files[i]) :
              a < b /\ files[i].rows[a].r > files[i].rows[b].r

(***************************************************************************)
(* Input files of the phase pipeline                                       *)
(***************************************************************************)
MaxFiles == 2

\* What a cell of a rotmod file can hold: unparsable (NaN), negative, zero,
\* positive, infinite.
Cells == {NaN, -1, 0, 1, 2, 4, PInf}

\* Five samples, not sorted by radius, the maximum radius tied between
\* positions 3 and 4 with different velocities.
BaseTied == <<MkRow(1, 1), MkRow(2, 2), MkRow(4, 2), MkRow(4, 4), MkRow(2, 4)>>
\* Six samples with a constant v^2/r.
BaseFlat == <<MkRow(1, 2), MkRow(1, 2), MkRow(4, 4), MkRow(1, 2), MkRow(1, 2),
              MkRow(4, 4)>>
Bases == {BaseTied, BaseFlat}

Table(rows) == [kind |-> "table", cols |-> 6, rows |-> rows]
Unreadable  == [kind |-> "unreadable", cols |-> 0, rows |-> <<>>]
OneColumn   == [kind |-> "table", cols |-> 1, rows |-> <<>>]

Replace(rows, i, w) == [rows EXCEPT ![i] = w]

\* A base table with one cell of one row replaced, or cut short.
RichTables ==
    {Table(Replace(b, i, [b[i] EXCEPT !.r = c])) :
        <<b, i, c>> \in {x \in Bases \X (1..6) \X Cells : x[2] <= Len(x[1])}}
    \cup
    {Table(Replace(b, i, [b[i] EXCEPT !.v = c])) :
        <<b, i, c>> \in {x \in Bases \X (1..6) \X Cells : x[2] <= Len(x[1])}}
    \cup
    {Table(Replace(b, i, [b[i] EXCEPT !.rest = NaN])) :
        <<b, i>> \in {x \in Bases \X (1..6) : x[2] <= Len(x[1])}}
    \cup
    {Table(SubSeq(b, 1, n)) : <<b, n>> \in {x \in Bases \X (0..6) : x[2] <= Len(x[1])}}

SmallFiles ==
    {Unreadable, OneColumn, Table(BaseTied), Table(BaseFlat),
     Table(SubSeq(BaseTied, 1, 4)),
     Table(Replace(BaseFlat, 2, MkRow(1, PInf)))}

PhaseFileLists ==
    {<<t>> : t \in RichTables}
    \cup UNION {[1..n -> SmallFiles] : n \in 0..MaxFiles}

(***************************************************************************)
(* Fixed-point arithmetic of the prediction                                *)
(*                                                                         *)
(*   velocity              0.1 km/s                                        *)
(*   squared velocity      0.001 (km/s)^2  (after the mass-to-light ratio) *)
(*   radius                0.001 kpc                                       *)
(*   acceleration, native  1 (km/s)^2/kpc                                  *)
(*   acceleration, SI      1e-16 m/s^2                                     *)
(*   exp(-s), 1 - exp(-s)  1e-4                                            *)
(*                                                                         *)
(* binary64 carries 53 bits, the fixed point four decimal digits below 1:  *)
(* 1 - exp(-s) is exactly 1 from s = 37.5 on in binary64 and from s = 9.3  *)
(* on here.  The accelerations handed to the function in GBarInputs lie    *)
(* outside 9.3 <= s < 37.5, where the two agree on the comparisons.        *)
(***************************************************************************)
RECURSIVE Bisect(_, _, _)
Bisect(n, lo, hi) ==
    IF hi - lo <= 1 THEN lo
    ELSE LET mid == (lo + hi) \div 2 IN
         IF mid * mid <= n THEN Bisect(n, mid, hi) ELSE Bisect(n, lo, mid)
\* floor(sqrt(n)), n >= 0
ISqrt(n) == Bisect(n, 0, 46341)

\* a / b
FDiv(a, b) ==
    IF IsNaN(a) \/ IsNaN(b) THEN NaN
    ELSE IF ~IsFinite(a) /\ ~IsFinite(b) THEN NaN
    ELSE IF ~IsFinite(a) THEN (IF b >= 0 THEN a ELSE -a)
    ELSE IF ~IsFinite(b) THEN 0
    ELSE IF b = 0 THEN (IF a = 0 THEN NaN ELSE IF a > 0 THEN PInf ELSE NInf)
    ELSE Sign(a) * Sign(b) * ((Sign(a) * a) \div (Sign(b) * b))

\* -a
FNeg(a) == IF IsNaN(a) THEN NaN ELSE -a

\* np.abs(a)
FAbs(a) == IF IsNaN(a) THEN NaN ELSE IF a < 0 THEN -a ELSE a

\* np.sqrt(a): NaN (with a warning) below zero
FSqrt(a) ==
    IF IsNaN(a) \/ a < 0 THEN NaN
    ELSE IF a = PInf THEN PInf
    ELSE ISqrt(a)

\* a + b
FAdd(a, b) ==
    IF IsNaN(a) \/ IsNaN(b) THEN NaN
    ELSE IF IsFinite(a) /\ IsFinite(b) THEN a + b
    ELSE IF ~IsFinite(a) /\ ~IsFinite(b) THEN (IF a = b THEN a ELSE NaN)
    ELSE IF ~IsFinite(a) THEN a ELSE b

KMS_TO_MS == 1000
\* KPC_TO_M = 3.086e19, in units of 1e16 m
KPC_TO_M == 3086
\* a - b
FSub(a, b) == FAdd(a, FNeg(b))

RECURSIVE FSum(_)
FSum(s) == IF s = <<>> THEN 0 ELSE FAdd(Head(s), FSum(Tail(s)))

\* np.mean(s): 0/0 = NaN on an empty array
FMean(s) == FDiv(FSum(s), Len(s))

\* A0 = 1.23e-10 m/s^2, in SI units of the model
A0 == 1230000
\* the floor 1e-15 of qics_acceleration, read as m/s^2
FLOOR_SI == 10
ExpScale == 10000

\* g * (KMS_TO_MS**2) / KPC_TO_M: native units to SI units, g finite, >= 0
ToSI(g) == MulDiv(KMS_TO_MS * KMS_TO_MS, g, KPC_TO_M)
\* g * KPC_TO_M / (KMS_TO_MS**2): SI units to native units, g finite, >= 0
\* (the fraction is reduced by 2 to keep the products within 32 bits)
FromSI(g) == MulDiv(g, KPC_TO_M \div 2, (KMS_TO_MS * KMS_TO_MS) \div 2)

\* np.sqrt(g / A0) in units of 1e-4, g finite, > 0, in SI units
SqrtX(g) ==
    IF g <= 20000000
    THEN ISqrt(MulDiv(g, 10000, A0 \div 10000))
    ELSE 100 * ISqrt(g \div (A0 \div 10000))

\* exp(-q) and exp(-j/10) in units of 1e-4
ExpInt   == <<10000, 3679, 1353, 498, 183, 67, 25, 9, 3, 1>>
ExpTenth == <<10000, 9048, 8187, 7408, 6703, 6065, 5488, 4966, 4493, 4066>>

\* np.exp(-s), s >= 0 in units of 1e-4, the result in units of 1e-4:
\* exp(-s) = exp(-q) * exp(-j/10) * exp(-t) with 0 <= t < 0.1
ExpNeg(s) ==
    IF s >= 100000 THEN 0
    ELSE LET q == s \div 10000
             j == (s % 10000) \div 1000
             t == s % 1000
             taylor == 10000 - t + (t * t) \div 20000 - (t * t * t) \div 600000000
         IN  (((ExpInt[q + 1] * ExpTenth[j + 1]) \div 10000) * taylor) \div 10000

\* g * (1 - np.exp(-np.sqrt(g / A0))): the factor applied the wrong way round
InterpolateInverted(g) == MulDiv(g, ExpScale - ExpNeg(SqrtX(g)), ExpScale)
\* g / (1 - np.exp(-np.sqrt(g / A0))) for a finite g > 0 in SI units
Interpolate(g) ==
    LET e == ExpNeg(SqrtX(g)) IN g + MulDiv(g, e, ExpScale - e)

\* The interpolation on any float: exp(-inf) = 0 leaves inf / 1.
InterpolateF(g) ==
    IF IsNaN(g) THEN NaN
    ELSE IF g = PInf THEN PInf
    ELSE Interpolate(g)

\* np.where(g < 1e-15, 1e-15, g): NaN compares false and passes through
FloorAt(g) == IF FLt(g, FLOOR_SI) THEN FLOOR_SI ELSE g

\* qics_acceleration(g_bar_si) of both QICS_ZeroParam_Analysis.py:
\* SI units in, SI units out
qics_acceleration(g_bar_si) == InterpolateF(FloorAt(g_bar_si))

\* The same two lines inside QICSAnalyzer.compute_qics_prediction
analyzer_g_tot(g_bar) == InterpolateF(FloorAt(g_bar))

\* qics_acceleration(g_bar, a0) of QIC_S_NGC2403_Analysis_v3911.py: native
\* units in, native units out; the floor 1e-15 is compared with the native
\* value.  1e-15 (km/s)^2/kpc lies below the unit: on the values of the
\* model the comparison g_bar < 1e-15 is g_bar <= 0, and the result for the
\* replaced value, 1.95e-6 (km/s)^2/kpc, is 0 in the unit.
qics_acceleration_v3911(g_bar) ==
    IF IsNaN(g_bar) THEN NaN
    ELSE IF g_bar = PInf THEN PInf
    ELSE IF g_bar <= 0 THEN 0
    ELSE FromSI(Interpolate(ToSI(g_bar)))

\* The floor 1e-15 of the v3911 variant, which is compared with the native
\* value, (km/s)^2/kpc: as an SI value it is 3.24e-29 m/s^2, nothing in the
\* SI unit of the model
FLOOR_NATIVE_AS_SI == 0

\* g_bar_si of the v3911 variant, g_bar_safe * (1000**2) / (3.086e19), for an
\* input whose SI value is g: np.where(g_bar < 1e-15, 1e-15, g_bar) has
\* replaced the input only if it lies below 1e-15 (km/s)^2/kpc
g_bar_si_v3911(g) ==
    IF FLt(g, FLOOR_NATIVE_AS_SI) \/ g = FLOOR_NATIVE_AS_SI
    THEN FLOOR_NATIVE_AS_SI
    ELSE g

(***************************************************************************)
(* The function under test: one call of each variant on one input          *)
(***************************************************************************)
MaxRoot  == 7
HugeRoot == 38
MaxSixteenths == 64

\* SI accelerations: below the floor, at the floor, fractions and small
\* multiples of A0 (sqrt(g/A0) up to MaxRoot), and one far above A0
GBarInputs ==
    (1..(FLOOR_SI + 2))
    \cup {(m * A0) \div 16 : m \in 1..MaxSixteenths}
    \cup {k * k * A0 : k \in 1..MaxRoot}
    \cup {HugeRoot * HugeRoot * A0}

NoQics == [done |-> FALSE, si |-> 0, analyzer |-> 0, native_in |-> 0, v3911 |-> 0,
           safe_si |-> 0, safe_analyzer |-> 0, safe_v3911 |-> 0]

InitQics ==
    /\ script = "qics_acceleration"
    /\ g_in \in GBarInputs
    /\ qres = NoQics

\* The v3911 variant is handed the same acceleration in its own unit.  The
\* safe_ fields are the value each variant divides by a0 (g_bar_safe, or
\* g_bar_si in the v3911 variant), in SI units.
CallQics ==
    /\ script = "qics_acceleration"
    /\ UNCHANGED notOfQics
    /\ ~qres.done
    /\ qres' = [done      |-> TRUE,
                si        |-> qics_acceleration(g_in),
                analyzer  |-> analyzer_g_tot(g_in),
                native_in |-> FromSI(g_in),
                v3911     |-> qics_acceleration_v3911(FromSI(g_in)),
                safe_si       |-> FloorAt(g_in),
                safe_analyzer |-> FloorAt(g_in),
                safe_v3911    |-> g_bar_si_v3911(g_in)]
    /\ UNCHANGED <<script, g_in>>

\* C6 (as claimed): for every positive baryonic acceleration each variant
\* returns a strictly larger acceleration.
C6_StrictlyLarger ==
    qres.done =>
      /\ qres.si > g_in
      /\ qres.analyzer > g_in
      /\ qres.native_in > 0 => qres.v3911 > qres.native_in

\* C6 (amended): the variants that take and return SI units return at least
\* the baryonic acceleration; the v3911 variant, which converts to SI units
\* and back, returns at least the baryonic acceleration up to the rounding
\* of the two conversions (one unit); and each variant returns strictly more
\* whenever 1 - exp(-sqrt(g_bar/a0)) is below 1.
C6_AtLeast ==
    qres.done =>
      /\ qres.si >= g_in
      /\ qres.analyzer >= g_in
      /\ qres.native_in > 0 => qres.v3911 >= qres.native_in - 1
      /\ ExpNeg(SqrtX(IF g_in < FLOOR_SI THEN FLOOR_SI ELSE g_in)) > 0 =>
           /\ qres.si > g_in
           /\ qres.analyzer > g_in
           /\ qres.native_in > 0 => qres.v3911 > qres.native_in

\* An input far above A0 has been through the function and came back equal.
C6_Witness ==
    /\ qres.done
    /\ g_in = HugeRoot * HugeRoot * A0
    /\ qres.si = g_in

\* max(g_bar_si, 1e-15): an input of at least 1e-15 m/s^2 unchanged, a
\* smaller one replaced by 1e-15 m/s^2
FlooredInSI(g) == IF g >= FLOOR_SI THEN g ELSE FLOOR_SI

\* The variants that take or compute the SI value before the floor: both
\* QICS_ZeroParam_Analysis.py and QICSAnalyzer.compute_qics_prediction
C18_SIVariants ==
    qres.done =>
      /\ qres.safe_si = FlooredInSI(g_in)
      /\ qres.safe_analyzer = FlooredInSI(g_in)

\* C18: in every variant of the QIC-S formula the floor is applied to the
\* baryonic acceleration in SI units, g_bar_safe = max(g_bar_si, 1e-15): an
\* input whose SI value is at least 1e-15 m/s^2 passes unchanged, one whose
\* SI value is below 1e-15 m/s^2 is replaced by 1e-15 m/s^2.
C18_FloorInSI ==
    /\ C18_SIVariants
    /\ qres.done => qres.safe_v3911 = FlooredInSI(g_in)

(***************************************************************************)
(* The unit conversions of the four scripts                                *)
(***************************************************************************)
\* A float product or quotient of exact values is the exact result times
\* (1 + d), |d| <= 2^-53.  A converted value is kept as the exact fraction
\* [num, den] in lowest terms, over the model's units, together with the
\* number of rounded operations behind it.
RECURSIVE Gcd(_, _)
Gcd(a, b) == IF b = 0 THEN a ELSE Gcd(b, a % b)

\* (a / b) * (c / d) in lowest terms, a / b in lowest terms and c, d > 0
FracMul(a, b, c, d) ==
    LET g  == Gcd(c, d)
        c0 == c \div g
        d0 == d \div g
        g1 == IF a = 0 THEN d0 ELSE Gcd(a, d0)
        g2 == Gcd(c0, b)
    IN  [num |-> (a \div g1) * (c0 \div g2), den |-> (b \div g2) * (d0 \div g1)]

\* The scripts that convert, and the constants each one converts with:
\* KPC_TO_M and KMS_TO_MS of the two QICS_ZeroParam_Analysis.py and of
\* qics_analyzer.py, the literals 3.086e19 and 1000 of the v3911 script
ConversionSites == {"archive", "data", "analyzer", "v3911"}

KpcOf(site) ==
    CASE site = "archive"  -> KPC_TO_M
      [] site = "data"     -> KPC_TO_M
      [] site = "analyzer" -> KPC_TO_M
      [] site = "v3911"    -> 3086

KmsOf(site) ==
    CASE site = "archive"  -> KMS_TO_MS
      [] site = "data"     -> KMS_TO_MS
      [] site = "analyzer" -> KMS_TO_MS
      [] site = "v3911"    -> 1000

\* The approximate factor of the comment of the v3911 script,
\* 1 (km/s)^2/kpc ~ 3.24e-14 m/s^2, in place of the constants
BackwardApprox(site) == [num |-> 10000, den |-> 324]

\* g * (KMS_TO_MS**2) / KPC_TO_M
Forward(site) == [num |-> KmsOf(site) * KmsOf(site), den |-> KpcOf(site)]
\* g_tot_si * KPC_TO_M / (KMS_TO_MS**2)
Backward(site) == [num |-> KpcOf(site), den |-> KmsOf(site) * KmsOf(site)]

\* One conversion line: a product and a quotient, two rounded operations.
\* inf and NaN (kept as the numerator, over 1) stay what they are.
Convert(x, f) ==
    IF x.val.num \in {NaN, PInf} THEN [done |-> TRUE, val |-> x.val, ops |-> x.ops + 2]
    ELSE [done |-> TRUE,
          val  |-> FracMul(x.val.num, x.val.den, f.num, f.den),
          ops  |-> x.ops + 2]

MaxAccel == 40
UnitInputs == (0..MaxAccel) \cup {NaN, PInf}

NotConverted == [done |-> FALSE, val |-> [num |-> 0, den |-> 1], ops |-> 0]

InitUnit ==
    /\ script = "unit_conversion"
    /\ u_site \in ConversionSites
    /\ u_g \in UnitInputs
    /\ u_si = NotConverted
    /\ u_back = NotConverted

IdleUnit ==
    /\ u_site = "archive"
    /\ u_g = 0
    /\ u_si = NotConverted
    /\ u_back = NotConverted

\* g_bar_si = g_bar * (KMS_TO_MS**2) / KPC_TO_M
ConvertToSI ==
    /\ script = "unit_conversion"
    /\ UNCHANGED notOfUnit
    /\ ~u_si.done
    /\ u_si' = Convert([val |-> [num |-> u_g, den |-> 1], ops |-> 0],
                        Forward(u_site))
    /\ UNCHANGED <<script, u_site, u_g, u_back>>

\* g_tot = g_tot_si * KPC_TO_M / (KMS_TO_MS**2), applied to the converted
\* value itself
ConvertBack ==
    /\ script = "unit_conversion"
    /\ UNCHANGED notOfUnit
    /\ u_si.done /\ ~u_back.done
    /\ u_back' = Convert(u_si, Backward(u_site))
    /\ UNCHANGED <<script, u_site, u_g, u_si>>

NextUnit == ConvertToSI \/ ConvertBack

\* C21: converting an acceleration to m/s^2 and back with the constants of
\* the call site returns the original value within 1e-9 relative error:
\* the two factors are exact inverses in every script, so the exact result
\* is the original, and the four rounded operations stay far inside 1e-9.
C21_RoundTrip ==
    /\ \A site \in ConversionSites :
         /\ Forward(site).num = Backward(site).den
         /\ Forward(site).den = Backward(site).num
    /\ u_back.done =>
         /\ u_back.val = [num |-> u_g, den |-> 1]
         /\ u_back.ops = 4
         /\ 2 * u_back.ops < 9007199   \* 1e-9 in units of 2^-53

\* An acceleration whose SI value is no whole number of units has made the
\* round trip
C21_Witness ==
    /\ u_back.done
    /\ u_site = "v3911"
    /\ u_g = 7
    /\ u_si.val = [num |-> 3500000, den |-> 1543]
    /\ u_back.val = [num |-> 7, den |-> 1]

(***************************************************************************)
(* Rotation-curve files read with np.loadtxt                               *)
(***************************************************************************)
ML_DISK  == 5      \* ML_DISK = ML_DISK_FIXED = 0.5, in tenths
ML_GAS   == 10     \* ML_GAS = ML_GAS_FIXED = 1.0, in tenths
ML_BULGE == 7      \* ML_BULGE = 0.7, in tenths (qics_analyzer.py only)
R_FLOOR  == 10     \* the radius floor 0.01 kpc of the archive script

\* One line of a file; the first `ncols' columns of it are on disk.
DatRow(r, v_obs, v_gas, v_disk, v_bul) ==
    [r |-> r, v_obs |-> v_obs, v_err |-> 10,
     v_gas |-> v_gas, v_disk |-> v_disk, v_bul |-> v_bul]

DatMissing == [exists |-> FALSE, parses |-> FALSE, ncols |-> 0, rows |-> <<>>]
DatGarbage == [exists |-> TRUE, parses |-> FALSE, ncols |-> 0, rows |-> <<>>]
DatTable(ncols, rows) ==
    [exists |-> TRUE, parses |-> TRUE, ncols |-> ncols, rows |-> rows]

Column(f, name) == [i \in 1..Len(f.rows) |-> f.rows[i][name]]
Zeros(f) == [i \in 1..Len(f.rows) |-> 0]
AbsAll(xs) == [i \in 1..Len(xs) |-> FAbs(xs[i])]

NoData == [ok |-> FALSE, r |-> <<>>, v_obs |-> <<>>, v_gas |-> <<>>,
           v_disk |-> <<>>, v_bul |-> <<>>]

\* np.loadtxt gives a two-dimensional array only for two or more lines of
\* two or more columns; data[:, k] raises IndexError on anything else and
\* on a column k the file does not have.
TwoDimensional(f) == Len(f.rows) >= 2 /\ f.ncols >= 2
HasColumn(f, k) == TwoDimensional(f) /\ f.ncols > k

\* The first path of paths_to_check that exists: [filename, data/filename]
FirstExisting(t) ==
    IF t.cwd.exists THEN t.cwd ELSE t.data

\* load_galaxy_data of archive/QICS_ZeroParam_Analysis.py
load_galaxy_data_archive(t) ==
    LET f == FirstExisting(t) IN
    IF ~f.exists THEN NoData
    ELSE IF ~f.parses THEN NoData
    ELSE IF ~HasColumn(f, 4) THEN NoData
    ELSE [ok |-> TRUE,
          r |-> Column(f, "r"), v_obs |-> Column(f, "v_obs"),
          v_gas |-> Column(f, "v_gas"), v_disk |-> Column(f, "v_disk"),
          v_bul |-> IF f.ncols > 5 THEN Column(f, "v_bul") ELSE Zeros(f)]

\* load_galaxy_data of data/QICS_ZeroParam_Analysis.py
load_galaxy_data_data(t) ==
    LET f == FirstExisting(t) IN
    IF ~f.exists THEN NoData
    ELSE IF ~f.parses THEN NoData
    ELSE IF ~HasColumn(f, 4) THEN NoData
    ELSE [ok |-> TRUE,
          r |-> Column(f, "r"), v_obs |-> Column(f, "v_obs"),
          v_gas |-> AbsAll(Column(f, "v_gas")),
          v_disk |-> AbsAll(Column(f, "v_disk")),
          v_bul |-> IF f.ncols > 5 THEN AbsAll(Column(f, "v_bul")) ELSE Zeros(f)]

\* v**2 * ml: squared velocity weighted by a mass-to-light ratio
Weighted(v, ml) == FMul(FMul(v, v), ml)

\* QICSAnalyzer.load_sparc_file: the file is the one path given; the
\* returned v_baryon is kept squared (v_bar_sq), np.sqrt of it is taken
\* where it is used.
BulgeWeightAnalyzer == ML_BULGE
\* The three squares added with no mass-to-light ratio
SparcBaryonSqUnweighted(gas, disk, bul) ==
    [i \in 1..Len(gas) |->
        FAdd(FAdd(Weighted(gas[i], 10), Weighted(disk[i], 10)), Weighted(bul[i], 10))]
SparcBaryonSq(gas, disk, bul) ==
    [i \in 1..Len(gas) |->
        FAdd(FAdd(Weighted(gas[i], ML_GAS), Weighted(disk[i], ML_DISK)),
             Weighted(bul[i], BulgeWeightAnalyzer))]

load_sparc_file(t) ==
    LET f == t.cwd IN
    IF ~f.exists THEN NoData
    ELSE IF ~f.parses THEN NoData
    ELSE IF ~HasColumn(f, 1) THEN NoData
    ELSE [ok |-> TRUE,
          r |-> Column(f, "r"), v_obs |-> Column(f, "v_obs"),
          v_gas  |-> IF f.ncols > 3 THEN AbsAll(Column(f, "v_gas")) ELSE Zeros(f),
          v_disk |-> IF f.ncols > 4 THEN AbsAll(Column(f, "v_disk")) ELSE Zeros(f),
          v_bul  |-> IF f.ncols > 5 THEN AbsAll(Column(f, "v_bul")) ELSE Zeros(f)]

(***************************************************************************)
(* The prediction at its three call sites                                  *)
(***************************************************************************)
\* Unit conversions on any float
ToSIF(g) == IF ~IsFinite(g) THEN g ELSE Sign(g) * ToSI(FAbs(g))
FromSIF(g) == IF ~IsFinite(g) THEN g ELSE Sign(g) * FromSI(FAbs(g))

\* np.sqrt of a squared velocity: 0.001 (km/s)^2 in, 0.1 km/s out
SqrtVel(p) == IF IsFinite(p) /\ p >= 0 THEN ISqrt(p \div 10) ELSE FSqrt(p)

\* (v - v_obs) / v_obs * 100 of one sample, in units of 0.1 percent
PercentDiff(v, v_obs) == FDiv(FMul(FSub(v, v_obs), 1000), v_obs)

\* a * |a|: a square that keeps the sign
SquareSigned(a) == FMul(a, FAbs(a))
Square(a) == FMul(a, a)

\* The v3911 script on the columns of its file:
\* v_baryon_sq = np.maximum(v_disk**2 + v_gas**2, 0); g_bar = v_baryon_sq / r;
\* v_qics = np.sqrt(qics_acceleration(g_bar, a0) * r).  np.maximum hands a
\* NaN on.
V3911Locals(d) ==
    LET n        == Len(d.r)
        sum      == [i \in 1..n |-> FMul(FAdd(Square(d.v_disk[i]), Square(d.v_gas[i])), 10)]
        v_bar_sq == [i \in 1..n |-> IF FLt(sum[i], 0) THEN 0 ELSE sum[i]]
        g_bar    == [i \in 1..n |-> FDiv(v_bar_sq[i], d.r[i])]
        g_tot    == [i \in 1..n |-> qics_acceleration_v3911(g_bar[i])]
    IN  [v_bar_sq |-> v_bar_sq, g_bar |-> g_bar,
         v_pred |-> [i \in 1..n |-> SqrtVel(FMul(g_tot[i], d.r[i]))]]

\* np.sqrt(np.mean((v_obs - v)**2)), in units of 0.1 km/s
Rms(v_obs, v) ==
    FSqrt(FMean([i \in 1..Len(v) |-> Square(FSub(v_obs[i], v[i]))]))

\* v_bar_sq of both analyze_single_galaxy: the bulge term carries
\* ML_DISK_FIXED (np.abs is applied here in archive/ and in the loader in
\* data/; it leaves a squared value unchanged)
BulgeWeightZeroParam == ML_DISK
ZeroParamBaryonSq(d) ==
    [i \in 1..Len(d.r) |->
        FAdd(FAdd(Weighted(FAbs(d.v_disk[i]), ML_DISK),
                  Weighted(FAbs(d.v_gas[i]), ML_GAS)),
             Weighted(FAbs(d.v_bul[i]), BulgeWeightZeroParam))]

\* r_safe = np.where(r < 0.01, 0.01, r) of the archive script
RSafe(r) == IF FLt(r, R_FLOOR) THEN R_FLOOR ELSE r

NoLocals == [called |-> FALSE, loaded |-> FALSE, r |-> <<>>,
             v_bar_sq |-> <<>>, g_bar |-> <<>>, v_pred |-> <<>>]

\* The body of analyze_single_galaxy after the load, archive/: the locals
\* r_safe, v_bar_sq, g_bar, v_qics
ArchiveLocals(d) ==
    LET n        == Len(d.r)
        r_safe   == [i \in 1..n |-> RSafe(d.r[i])]
        v_bar_sq == ZeroParamBaryonSq(d)
        g_bar    == [i \in 1..n |-> FDiv(v_bar_sq[i], r_safe[i])]
        g_tot    == [i \in 1..n |-> FromSIF(qics_acceleration(ToSIF(g_bar[i])))]
    IN  [called |-> TRUE, loaded |-> TRUE, r |-> d.r,
         v_bar_sq |-> v_bar_sq, g_bar |-> g_bar,
         v_pred |-> [i \in 1..n |-> SqrtVel(FMul(g_tot[i], r_safe[i]))]]

\* ... data/: the division is by r itself
DataLocals(d) ==
    LET n        == Len(d.r)
        v_bar_sq == ZeroParamBaryonSq(d)
        g_bar    == [i \in 1..n |-> FDiv(v_bar_sq[i], d.r[i])]
        g_tot    == [i \in 1..n |-> FromSIF(qics_acceleration(ToSIF(g_bar[i])))]
    IN  [called |-> TRUE, loaded |-> TRUE, r |-> d.r,
         v_bar_sq |-> v_bar_sq, g_bar |-> g_bar,
         v_pred |-> [i \in 1..n |-> SqrtVel(FMul(g_tot[i], d.r[i]))]]

\* QICSAnalyzer.compute_qics_prediction(r, v_baryon) on the v_baryon of
\* load_sparc_file
AnalyzerLocals(d) ==
    LET n        == Len(d.r)
        v_bar_sq == SparcBaryonSq(d.v_gas, d.v_disk, d.v_bul)
        g_bar    == [i \in 1..n |-> ToSIF(FDiv(v_bar_sq[i], d.r[i]))]
        g_tot    == [i \in 1..n |-> FromSIF(analyzer_g_tot(g_bar[i]))]
    IN  [called |-> TRUE, loaded |-> TRUE, r |-> d.r,
         v_bar_sq |-> v_bar_sq, g_bar |-> g_bar,
         v_pred |-> [i \in 1..n |-> SqrtVel(FMul(g_tot[i], d.r[i]))]]

NotLoaded == [NoLocals EXCEPT !.called = TRUE]

\* analyze_single_galaxy(galaxy_name, filename) of archive/
analyze_single_galaxy_archive(name, t) ==
    LET d == load_galaxy_data_archive(t) IN
    IF ~d.ok THEN [some |-> FALSE]
    ELSE LET l == ArchiveLocals(d) IN
         [some |-> TRUE, name |-> name,
          deviation |-> FMean([i \in 1..Len(d.r) |->
                                 PercentDiff(l.v_pred[i], d.v_obs[i])]),
          rms |-> Rms(d.v_obs, l.v_pred),
          v_qics |-> l.v_pred, v_bar_sq |-> l.v_bar_sq]

\* analyze_single_galaxy(galaxy_name, filename) of data/: the deviation is
\* the mean over the outer half, v_qics[mid_idx:]
analyze_single_galaxy_data(name, t) ==
    LET d == load_galaxy_data_data(t) IN
    IF ~d.ok THEN [some |-> FALSE]
    ELSE LET l       == DataLocals(d)
             n       == Len(d.r)
             mid_idx == n \div 2
         IN  [some |-> TRUE, name |-> name,
              deviation |-> FMean([i \in 1..(n - mid_idx) |->
                                     PercentDiff(l.v_pred[mid_idx + i],
                                                 d.v_obs[mid_idx + i])]),
              rms |-> Rms(d.v_obs, l.v_pred)]

\* The phase metric of compute_hamiltonian_landscape(r, v_obs, v_baryon):
\* 999.0 when fewer than 5 samples have r > 0 and v_obs > 0.  The cells are
\* in 0.001 kpc and 0.1 km/s, which shifts every logarithm by the same
\* constant and leaves the variance as it is.
SENTINEL_METRIC == 999000000
hamiltonian_phase_metric(d) ==
    LET valid == SelectSeq([i \in 1..Len(d.r) |-> [r |-> d.r[i], v |-> d.v_obs[i]]],
                           LAMBDA w : FGt(w.r, 0) /\ FGt(w.v, 0))
    IN  IF Len(valid) < 5 THEN SENTINEL_METRIC
        ELSE NpVar(Map(valid, LogGradH))

\* QICSAnalyzer.analyze(data)
analyze(name, d) ==
    IF ~d.ok THEN [some |-> FALSE]
    ELSE LET l == AnalyzerLocals(d)
             m == hamiltonian_phase_metric(d)
         IN  [some |-> TRUE, name |-> name, v_pred |-> l.v_pred,
              phase_metric |-> m, phase |-> classify_phase(m)]

(***************************************************************************)
(* The loops over the targets                                              *)
(***************************************************************************)
Deviations(rows) == [i \in 1..Len(rows) |-> rows[i].deviation]

\* results.sort(key=lambda x: x["deviation"]): a stable ascending sort.  On
\* keys that hold a NaN every comparison with it is false and the outcome
\* depends on the order of the comparisons: any order is allowed then.
IsSortOf(p, rows) ==
    LET dev == Deviations(rows) IN
    \/ \E i \in 1..Len(rows) : IsNaN(dev[i])
    \/ \A i, j \in 1..Len(rows) :
         i < j => \/ dev[p[i]] < dev[p[j]]
                  \/ dev[p[i]] = dev[p[j]] /\ p[i] < p[j]

Count(xs, P(_)) == Cardinality({i \in 1..Len(xs) : P(xs[i])})

\* The colour of one bar, archive/ and data/
ColorArchive(d) ==
    IF FLt(FAbs(d), 100) THEN "green"
    ELSE IF FLt(FAbs(d), 250) THEN "orange" ELSE "red"
ColorData(d) ==
    IF FLt(d, 70) THEN "green"
    ELSE IF FLt(d, 250) THEN "orange" ELSE "red"

\* The bar chart and plt.savefig(name).  Whether drawing bars of a
\* deviation that is NaN or infinite raises is the library's business; zpc
\* = "done" says that the chart code has been reached.
ChartOutcomes(rows, name) ==
    IF \E k \in 1..Len(rows) : ~IsFinite(rows[k].deviation)
    THEN {{}, {name}}
    ELSE {{name}}

ZeroArchiveStep ==
    /\ script = "zeroparam_archive"
    /\ UNCHANGED notOfDat
    /\ zpc = "loop"
    /\ tidx <= Len(targets)
    /\ LET res == analyze_single_galaxy_archive(tidx, targets[tidx])
           d   == load_galaxy_data_archive(targets[tidx])
       IN  /\ zresults' = IF res.some THEN Append(zresults, res)
                          ELSE zresults
           /\ zlocals' = IF d.ok THEN ArchiveLocals(d) ELSE NotLoaded
    /\ tidx' = tidx + 1
    /\ UNCHANGED <<script, targets, zpc, zsummary, zwritten>>

ZeroArchiveFinish ==
    /\ script = "zeroparam_archive"
    /\ UNCHANGED notOfDat
    /\ zpc = "loop"
    /\ tidx > Len(targets)
    /\ IF zresults = <<>>
       THEN /\ zpc' = "nodata"
            /\ UNCHANGED <<zresults, zsummary, zwritten>>
       ELSE \E p \in Permutations(1..Len(zresults)) :
              /\ IsSortOf(p, zresults)
              /\ zresults' = [i \in 1..Len(zresults) |-> zresults[p[i]]]
              /\ zsummary' =
                   LET devs == Deviations(zresults) IN
                   [colors       |-> [i \in 1..Len(devs) |-> ColorArchive(devs[p[i]])],
                    standard     |-> Count(devs, LAMBDA d : FLt(FAbs(d), 100)),
                    intermediate |-> Count(devs, LAMBDA d : FGe(FAbs(d), 100)
                                                            /\ FLt(FAbs(d), 250)),
                    signal       |-> Count(devs, LAMBDA d : FGe(FAbs(d), 250))]
              /\ zpc' = "done"
              /\ zwritten' \in ChartOutcomes(zresults, "QICS_Spectrum_Simple")
    /\ UNCHANGED <<script, targets, tidx, zlocals>>

ZeroDataStep ==
    /\ script = "zeroparam_data"
    /\ UNCHANGED notOfDat
    /\ zpc = "loop"
    /\ tidx <= Len(targets)
    /\ LET res == analyze_single_galaxy_data(tidx, targets[tidx])
           d   == load_galaxy_data_data(targets[tidx])
       IN  /\ zresults' = IF res.some THEN Append(zresults, res) ELSE zresults
           /\ zlocals' = IF d.ok THEN DataLocals(d) ELSE NotLoaded
    /\ tidx' = tidx + 1
    /\ UNCHANGED <<script, targets, zpc, zsummary, zwritten>>

ZeroDataFinish ==
    /\ script = "zeroparam_data"
    /\ UNCHANGED notOfDat
    /\ zpc = "loop"
    /\ tidx > Len(targets)
    /\ IF zresults = <<>>
       THEN /\ zpc' = "nodata"
            /\ UNCHANGED <<zresults, zsummary, zwritten>>
       ELSE \E p \in Permutations(1..Len(zresults)) :
              /\ IsSortOf(p, zresults)
              /\ zresults' = [i \in 1..Len(zresults) |-> zresults[p[i]]]
              /\ zsummary' =
                   [colors |-> [i \in 1..Len(zresults) |->
                                  ColorData(zresults[p[i]].deviation)]]
              /\ zpc' = "done"
              /\ zwritten' \in ChartOutcomes(zresults, "QICS_Spectrum_AutoGenerated")
    /\ UNCHANGED <<script, targets, tidx, zlocals>>

\* qics_analyzer.main: `for fname in [args.file1, args.file2]`; the result
\* of analyze is appended also when it is None
AnalyzerStep ==
    /\ script = "qics_analyzer"
    /\ UNCHANGED notOfDat
    /\ zpc = "loop"
    /\ tidx <= Len(targets)
    /\ LET d == load_sparc_file(targets[tidx]) IN
       /\ zresults' = Append(zresults, analyze(tidx, d))
       /\ zlocals' = IF d.ok THEN AnalyzerLocals(d) ELSE NotLoaded
    /\ tidx' = tidx + 1
    /\ UNCHANGED <<script, targets, zpc, zsummary, zwritten>>

\* create_comparison_figure(results_list, ...): one pair of panels for
\* every entry that is not None, then savefig; whether drawing a curve that
\* holds a NaN or an infinity raises is the library's business
AnalyzerFinish ==
    /\ script = "qics_analyzer"
    /\ UNCHANGED notOfDat
    /\ zpc = "loop"
    /\ tidx > Len(targets)
    /\ zsummary' = [panels |-> Count(zresults, LAMBDA res : res.some)]
    /\ zpc' = "done"
    /\ zwritten' \in
         IF \E k \in 1..Len(zresults) :
              zresults[k].some /\ \E i \in 1..Len(zresults[k].v_pred) :
                                    ~IsFinite(zresults[k].v_pred[i])
         THEN {{}, {"Fig1_Individual_Verification"}}
         ELSE {{"Fig1_Individual_Verification"}}
    /\ UNCHANGED <<script, targets, tidx, zresults, zlocals>>

(***************************************************************************)
(* Input files of the three scripts                                        *)
(***************************************************************************)
MaxTargets == 2

\* Six samples; radii 1.024, 2.048, 4.096 kpc, velocities 12.8, 25.6,
\* 51.2 km/s (powers of two, for the exact logarithm)
DatBase ==
    << DatRow(1024, 128, 0, 128, 0),     DatRow(2048, 256, 0, 256, 0),
       DatRow(4096, 512, 0, 512, 0),     DatRow(4096, 256, 128, 128, 128),
       DatRow(2048, 128, 128, 0, 0),     DatRow(1024, 256, 0, 0, 128) >>

\* The second sample replaced: radius 0, negative, below the floor; observed
\* velocity 0; a negative gas flag; a bulge.  The target lists hold a file
\* with the text nan for an observed velocity as well.
DatVariants ==
    { DatRow(0, 256, 0, 256, 0),    DatRow(-1024, 256, 0, 256, 0),
      DatRow(8, 256, 0, 256, 0),    DatRow(0, 256, 0, 0, 0),
      DatRow(2048, 0, 0, 256, 0),   DatRow(2048, 256, -128, 256, 256) }

DatFiles ==
    {DatMissing, DatGarbage}
    \cup {DatTable(c, DatBase) : c \in 1..6}
    \cup {DatTable(6, Replace(DatBase, 2, w)) : w \in DatVariants}
    \cup {DatTable(6, SubSeq(DatBase, 1, k)) : k \in {0, 1, 4}}

\* The files a target list is made of
ZeroFiles ==
    {DatMissing, DatGarbage, DatTable(6, SubSeq(DatBase, 1, 1))}
    \cup {DatTable(c, DatBase) : c \in 4..6}
    \cup {DatTable(6, Replace(DatBase, 2, w)) :
            w \in {DatRow(0, 256, 0, 256, 0), DatRow(8, 256, 0, 256, 0),
                   DatRow(2048, 0, 0, 256, 0), DatRow(2048, NaN, 0, 256, 0)}}

\* A target names a file that may lie in the working directory or in data/
ZeroTargets ==
    {[cwd |-> DatMissing, data |-> f] : f \in ZeroFiles}
    \cup {[cwd |-> DatTable(6, DatBase), data |-> DatMissing],
          [cwd |-> DatGarbage, data |-> DatTable(6, DatBase)]}

\* Three samples: radius 1, 2, 4 kpc, disk velocity 10, 20, 40 km/s, all
\* other velocities 0
ExampleDisk ==
    DatTable(6, << DatRow(1000, 0, 0, 100, 0), DatRow(2000, 0, 0, 200, 0),
                   DatRow(4000, 0, 0, 400, 0) >>)

\* A command-line argument is one path
AnalyzerTargets == {[cwd |-> f, data |-> DatMissing] : f \in DatFiles \cup {ExampleDisk}}

InitDat ==
    /\ \/ /\ script \in {"zeroparam_archive", "zeroparam_data"}
          /\ targets \in UNION {[1..n -> ZeroTargets] : n \in 0..MaxTargets}
       \/ /\ script = "qics_analyzer"
          /\ targets \in UNION {[1..n -> AnalyzerTargets] : n \in 1..2}
    /\ tidx = 1
    /\ zresults = <<>>
    /\ zlocals = NoLocals
    /\ zpc = "loop"
    /\ zsummary = [colors |-> <<>>]
    /\ zwritten = {}

IdleDat ==
    /\ targets = <<>>
    /\ tidx = 1
    /\ zresults = <<>>
    /\ zlocals = NoLocals
    /\ zpc = "idle"
    /\ zsummary = [colors |-> <<>>]
    /\ zwritten = {}

NextDat ==
    \/ ZeroArchiveStep
    \/ ZeroArchiveFinish
    \/ ZeroDataStep
    \/ ZeroDataFinish
    \/ AnalyzerStep
    \/ AnalyzerFinish

(***************************************************************************)
(* Properties of the loops over the targets                                *)
(***************************************************************************)
\* The file the latest analysis call read
LastFile ==
    IF script = "qics_analyzer" THEN targets[tidx - 1].cwd
    ELSE FirstExisting(targets[tidx - 1])

\* A cell of column k (counted from 0) of a file, 0 where the file has no
\* such column
CellOrZero(f, i, name, k) == IF f.ncols > k THEN f.rows[i][name] ELSE 0

HasName(rows, i) == \E k \in 1..Len(rows) : rows[k].name = i

\* C13: for radius [1,2,4] kpc, disk velocity [10,20,40] km/s, gas and
\* bulge 0 and the weights 0.5, 1.0, 0.7, load_sparc_file composes the
\* squared baryonic velocity [50,200,800] (km/s)^2 (v_baryon = 7.0, 14.1,
\* 28.2 km/s) and compute_qics_prediction divides it by the radius to the
\* acceleration [50,100,200] (km/s)^2/kpc, which it converts to m/s^2.
C13_Composition ==
    script = "qics_analyzer" /\ tidx > 1 /\ LastFile = ExampleDisk =>
      /\ zlocals.loaded
      /\ zlocals.v_bar_sq = <<50000, 200000, 800000>>
      /\ [i \in 1..3 |-> SqrtVel(zlocals.v_bar_sq[i])] = <<70, 141, 282>>
      /\ [i \in 1..3 |-> FDiv(zlocals.v_bar_sq[i], zlocals.r[i])] = <<50, 100, 200>>
      /\ zlocals.g_bar = <<ToSIF(50), ToSIF(100), ToSIF(200)>>

C13_Witness ==
    /\ script = "qics_analyzer"
    /\ tidx = 2
    /\ targets[1].cwd = ExampleDisk
    /\ zlocals.loaded
    /\ zlocals.r = <<1000, 2000, 4000>>
    /\ zlocals.v_bar_sq[3] = 800000

\* A file of the phase pipeline that loads and passes validation
PhaseValid(f) == Cardinality(Survivors(f)) >= MIN_POINTS

\* C1: in the batch loops of phase_analysis.main and of the ZeroParam main a
\* file that is missing or cannot be read or parsed yields no row and raises
\* nothing out of the loop, the loop goes on to every later file, and the
\* rows are exactly the files that load and pass validation.
C1_BadFileSkipped ==
    /\ script = "phase_analysis" =>
         /\ ppc # "raised"
         /\ ppc \in {"done", "nodata"} => fidx = Len(files) + 1
         /\ \A i \in 1..Len(files) :
              HasRow(results, i) <=> (i < fidx /\ PhaseValid(files[i]))
    /\ script \in {"zeroparam_archive", "zeroparam_data"} =>
         /\ zpc \in {"loop", "done", "nodata"}
         /\ zpc \in {"done", "nodata"} => tidx = Len(targets) + 1
         /\ \A i \in 1..Len(targets) :
              LET f == FirstExisting(targets[i]) IN
              /\ ~f.exists \/ ~f.parses => ~HasName(zresults, i)
              /\ HasName(zresults, i) <=>
                   /\ i < tidx
                   /\ IF script = "zeroparam_archive"
                      THEN load_galaxy_data_archive(targets[i]).ok
                      ELSE load_galaxy_data_data(targets[i]).ok

\* Both loops have gone past a bad file and produced a row for a later one.
C1_Witness ==
    \/ /\ script = "phase_analysis"
       /\ ppc = "done"
       /\ Len(files) = 2
       /\ files[1].kind = "unreadable"
       /\ HasRow(results, 2)
    \/ /\ script = "zeroparam_archive"
       /\ zpc = "done"
       /\ Len(targets) = 2
       /\ ~FirstExisting(targets[1]).parses
       /\ HasName(zresults, 2)

\* C5: at every call site the squared baryonic velocity of a sample is
\* w_gas*v_gas^2 + w_disk*v_disk^2 + w_bulge*v_bulge^2, the bulge term
\* weighted by the bulge coefficient.
C5_BulgeCoefficient ==
    zlocals.loaded =>
      \A i \in 1..Len(zlocals.v_bar_sq) :
        zlocals.v_bar_sq[i] =
            Square(CellOrZero(LastFile, i, "v_gas", 3)) * ML_GAS
          + Square(CellOrZero(LastFile, i, "v_disk", 4)) * ML_DISK
          + Square(CellOrZero(LastFile, i, "v_bul", 5)) * ML_BULGE

\* C5, the call site that has a bulge coefficient: load_sparc_file
C5_AnalyzerOnly == script = "qics_analyzer" => C5_BulgeCoefficient

\* A rotation curve with a sample whose radius is below the floor (zero and
\* negative radii included)
HasSmallRadius(rs) == \E i \in 1..Len(rs) : FLt(rs[i], R_FLOOR)

\* C7: for a rotation curve with a sample of radius <= 0 or below the floor
\* the baryonic acceleration and the predicted velocity of every sample are
\* finite, in every script that computes a prediction.
C7_ClampedFinite ==
    zlocals.loaded /\ HasSmallRadius(zlocals.r) =>
      \A i \in 1..Len(zlocals.r) :
        IsFinite(zlocals.g_bar[i]) /\ IsFinite(zlocals.v_pred[i])

\* C7, the script that clamps: archive/QICS_ZeroParam_Analysis.py
C7_ArchiveOnly == script = "zeroparam_archive" => C7_ClampedFinite

\* C8: a file of two or more lines whose rows have from 2 to 5 columns is
\* loaded by every loader, the missing gas, disk and bulge columns as zeros.
C8_ShortRowsLoad ==
    /\ zlocals.called
    /\ LastFile.exists /\ LastFile.parses /\ Len(LastFile.rows) >= 2
    /\ LastFile.ncols >= 2 /\ LastFile.ncols < 6
    => /\ zlocals.loaded
       /\ Len(zlocals.r) = Len(LastFile.rows)
       /\ LastFile.ncols < 4 =>
            \A i \in 1..Len(zlocals.v_bar_sq) : zlocals.v_bar_sq[i] = 0

\* C8, the loader that tolerates short rows: load_sparc_file
C8_AnalyzerOnly == script = "qics_analyzer" => C8_ShortRowsLoad

(***************************************************************************)
(* bootstrap_analysis.py                                                   *)
(***************************************************************************)
\* FILAMENT_DATA: (name, R, v); D_eff = R * v
FILAMENT_DATA == << [R |-> 50, v |-> 110], [R |-> 1700, v |-> 110],
                    [R |-> 15000, v |-> 110] >>

\* np.log10 in hundredths, on the values the datasets below hold
Log10(x) ==
    CASE x = PInf -> PInf   [] x = 1 -> 0          [] x = 2 -> 30
      [] x = 4 -> 60        [] x = 8 -> 90         [] x = 16 -> 120
      [] x = 10 -> 100      [] x = 50 -> 170       [] x = 100 -> 200
      [] x = 1000 -> 300    [] x = 1700 -> 323     [] x = 5500 -> 374
      [] x = 10000 -> 400   [] x = 15000 -> 418    [] x = 100000 -> 500
      [] x = 187000 -> 527  [] x = 1650000 -> 622

\* load_data(): the galaxy rows of the CSV followed by the filament rows
AllR(rows) ==
    [i \in 1..Len(rows) |-> rows[i].R]
      \o [i \in 1..Len(FILAMENT_DATA) |-> FILAMENT_DATA[i].R]
AllD(rows) ==
    [i \in 1..Len(rows) |-> rows[i].D_eff]
      \o [i \in 1..Len(FILAMENT_DATA) |-> FILAMENT_DATA[i].R * FILAMENT_DATA[i].v]

\* A table whose first point is the second one
FilamentDataAltered == << [R |-> 1700, v |-> 110], [R |-> 1700, v |-> 110],
                          [R |-> 15000, v |-> 110] >>
\* FILAMENT_DATA of plot_scaling_law.py
FILAMENT_DATA_PLOT == << [R |-> 50, v |-> 110], [R |-> 1700, v |-> 110],
                         [R |-> 15000, v |-> 110] >>

\* plot_scaling_law.main: filament_points, and the arrays handed to linregress
filament_points ==
    [i \in 1..Len(FILAMENT_DATA_PLOT) |->
        [R |-> FILAMENT_DATA_PLOT[i].R,
         D_eff |-> FILAMENT_DATA_PLOT[i].R * FILAMENT_DATA_PLOT[i].v]]
ScalingAllR(rows) ==
    [i \in 1..Len(rows) |-> rows[i].R]
      \o [i \in 1..Len(filament_points) |-> filament_points[i].R]
ScalingAllD(rows) ==
    [i \in 1..Len(rows) |-> rows[i].D_eff]
      \o [i \in 1..Len(filament_points) |-> filament_points[i].D_eff]

\* scipy.stats.linregress(x, y): slope and r_value**2 in hundredths.  On
\* identical x values scipy raises ValueError, or, before it did, divided
\* 0 by 0 and returned NaN.
Ssxm(x) == Len(x) * SumSeq([i \in 1..Len(x) |-> x[i] * x[i]]) - SumSeq(x) * SumSeq(x)
\* The sum of products without the product of the sums
SsxymUncentred(x, y) == Len(x) * SumSeq([i \in 1..Len(x) |-> x[i] * y[i]])
Ssxym(x, y) == Len(x) * SumSeq([i \in 1..Len(x) |-> x[i] * y[i]]) - SumSeq(x) * SumSeq(y)

DegenerateSlope(x, y) ==
    IF linregress_raises
    THEN [raises |-> TRUE, slope |-> NaN, r2 |-> NaN, intercept |-> NaN]
    ELSE [raises |-> FALSE, slope |-> NaN, r2 |-> NaN, intercept |-> NaN]

\* calculate_slope(log_r, log_d)
calculate_slope(x, y) ==
    IF \E i \in 1..Len(x) : ~IsFinite(x[i]) \/ ~IsFinite(y[i])
    THEN [raises |-> FALSE, slope |-> NaN, r2 |-> NaN, intercept |-> NaN]
    ELSE IF Ssxm(x) = 0 THEN DegenerateSlope(x, y)
    ELSE LET num == Ssxym(x, y)
             sx  == MulDiv(FAbs(num), 100, Ssxm(x))
             sy  == IF Ssxm(y) = 0 THEN 0 ELSE MulDiv(FAbs(num), 100, Ssxm(y))
             slope == Sign(num) * sx
         IN  [raises |-> FALSE, slope |-> slope, r2 |-> (sx * sy) \div 100,
              intercept |-> (100 * SumSeq(y) - slope * SumSeq(x)) \div (100 * Len(x))]

\* log_r[indices]
Take(xs, idx) == [k \in 1..Len(idx) |-> xs[idx[k] + 1]]
\* A selection by an index vector of its own: every index one further
TakeShifted(xs, idx) == [k \in 1..Len(idx) |-> xs[((idx[k] + 1) % Len(xs)) + 1]]
\* log_d[indices]
TakeD(xs, idx) == Take(xs, idx)

\* The global generator np.random is a Mersenne Twister.  Its state is the
\* seed it was last given and the number of 32-bit words drawn since.
\* A call that leaves the generator as it found it
SeedIgnored(g, s) == g
\* np.random.seed(s)
np_random_seed(g, s) == [seed |-> s, pos |-> 0]

\* The states the generator is in when this script starts or calls again:
\* freshly seeded, or some words further on
MaxDrawnBefore == 2
Generators == { [seed |-> 42, pos |-> p] : p \in {0, MaxDrawnBefore} }

\* The three low bits of the first words the generator yields after
\* np.random.seed(42)
MT19937_SEED42 ==
    <<
       6, 3, 4, 6, 2, 7, 4, 4, 6, 1, 2, 6, 2, 2, 7, 4, 3, 7, 7, 2,
       5, 4, 1, 7, 3, 5, 5, 1, 7, 3, 4, 0, 3, 1, 5, 4, 3, 0, 0, 2,
       2, 6, 1, 7, 3, 3, 7, 6, 5, 5, 6, 5, 2, 3, 6, 3, 7, 0, 2, 4,
       2, 6, 4, 0, 6, 1, 3, 0, 3, 5, 1, 1, 0, 1, 4, 1, 3, 3, 6, 3,
       6, 3, 4, 7, 6, 2, 5, 0, 3, 1, 7, 3, 1, 5, 5, 5, 1, 3, 5, 4,
       6, 1, 1, 3, 1, 1, 5, 3, 5, 6, 7, 6, 7, 5, 6, 3, 0, 5, 7, 4,
       7, 4, 1, 6, 4, 7, 1, 0, 3, 3, 3, 4, 0, 4, 6, 4, 0, 0, 6, 0,
       7, 0, 3, 7, 7, 6, 2, 2, 0, 7, 2, 2, 0, 2, 4, 1, 6, 1, 0, 3,
       6, 0, 7, 3, 1, 0, 7, 6, 6, 5, 7, 4, 2, 3, 7, 5, 2, 2, 0, 2,
       4, 6, 5, 2, 0, 4, 1, 6, 6, 5, 6, 2, 0, 6, 6, 1, 1, 3, 4, 2,
       6, 7, 6, 0, 3, 4, 7, 3, 5, 4, 6, 6, 4, 6, 2, 4, 3, 4, 7, 6,
       2, 2, 5, 3, 1, 1, 4, 5, 0, 4, 5, 3, 3, 3, 3, 3, 5, 5, 2, 7
    >>

\* The next 32-bit word of the generator, reduced to its three low bits
NextWord(g) == MT19937_SEED42[g.pos + 1]

\* The mask of randint: the smallest 2^k - 1 that is >= top
MaskOf(top) == IF top = 0 THEN 0 ELSE IF top = 1 THEN 1 ELSE IF top <= 3 THEN 3 ELSE 7

\* np.random.choice(n, size=n, replace=True) is randint(0, n, size=n): each
\* entry is the next word under the mask, drawn again while it exceeds n - 1.
RECURSIVE Randint(_, _, _, _)
Randint(g, top, size, acc) ==
    IF Len(acc) = size THEN [indices |-> acc, rng |-> g]
    ELSE IF top = 0 THEN Randint(g, top, size, Append(acc, 0))
    ELSE LET v == NextWord(g) % (MaskOf(top) + 1)
             h == [g EXCEPT !.pos = g.pos + 1]
         IN  IF v <= top THEN Randint(h, top, size, Append(acc, v))
             ELSE Randint(h, top, size, acc)

np_random_choice(g, n) == Randint(g, n - 1, n, <<>>)

\* np.sort
RECURSIVE Insert(_, _)
Insert(x, sorted) ==
    IF sorted = <<>> THEN <<x>>
    ELSE IF x <= Head(sorted) THEN <<x>> \o sorted
    ELSE <<Head(sorted)>> \o Insert(x, Tail(sorted))

RECURSIVE Sort(_)
Sort(xs) == IF xs = <<>> THEN <<>> ELSE Insert(Head(xs), Sort(Tail(xs)))

\* np.percentile(a, q) for q = fortieths / 40 * 100, linear interpolation
\* between the two neighbours of position (n - 1) * q / 100; NaN if a holds one
Percentile(a, fortieths) ==
    IF \E i \in 1..Len(a) : IsNaN(a[i]) THEN NaN
    ELSE LET sorted == Sort(a)
             h  == (Len(a) - 1) * fortieths
             lo == h \div 40 + 1
             hi == IF lo < Len(a) THEN lo + 1 ELSE lo
         IN  sorted[lo] + ((sorted[hi] - sorted[lo]) * (h % 40)) \div 40

NoReturn == [returned |-> FALSE, original_slope |-> 0, original_r2 |-> 0,
             bootstrap_slopes |-> <<>>, bootstrap_r2s |-> <<>>,
             slope_mean |-> 0, slope_ci_lower |-> 0, slope_ci_upper |-> 0,
             r2_mean |-> 0, r2_ci_lower |-> 0, r2_ci_upper |-> 0,
             n_samples |-> 0, n_bootstrap |-> 0]

\* bootstrap_analysis(r, d, n_bootstrap) up to the resampling loop, called
\* while the generator is in state g: the logarithms, the original fit, the
\* empty lists, the seed
EnterBootstrap(r, d, g) ==
    LET lr == Map(r, Log10)
        ld == Map(d, Log10)
        original == calculate_slope(lr, ld)
    IN  /\ rng_before' = g
        /\ log_r' = lr
        /\ log_d' = ld
        /\ boot_ret' = [NoReturn EXCEPT !.original_slope = original.slope,
                                        !.original_r2 = original.r2]
        /\ bootstrap_slopes' = <<>>
        /\ bootstrap_r2s' = <<>>
        /\ boot_i' = 0
        /\ indices' = <<>>
        /\ boot_log_r' = <<>>
        /\ boot_log_d' = <<>>
        /\ IF original.raises
           THEN bpc' = "raised" /\ rng' = g
           ELSE bpc' = "loop" /\ rng' = np_random_seed(g, 42)

\* main() up to the resampling loop: load_data(), which returns None for no
\* file and raises KeyError at df['R'] or df['D_eff'] for a table without
\* that column; `if all_r is None: return'; the call of bootstrap_analysis
BootStart ==
    /\ script = "bootstrap_analysis"
    /\ UNCHANGED notOfBoot
    /\ bpc = "start"
    /\ IF ~agg_csv.exists
       THEN /\ bpc' = "nofile"
            /\ UNCHANGED <<rng, rng_before, all_r, all_d, log_r, log_d, boot_ret, boot_i,
                           indices, boot_log_r, boot_log_d, bootstrap_slopes,
                           bootstrap_r2s>>
       ELSE IF MissingColumn(agg_csv.columns, {"R", "D_eff"})
       THEN /\ bpc' = "keyerror"
            /\ UNCHANGED <<rng, rng_before, all_r, all_d, log_r, log_d, boot_ret, boot_i,
                           indices, boot_log_r, boot_log_d, bootstrap_slopes,
                           bootstrap_r2s>>
       ELSE /\ all_r' = AllR(agg_csv.rows)
            /\ all_d' = AllD(agg_csv.rows)
            /\ EnterBootstrap(AllR(agg_csv.rows), AllD(agg_csv.rows), rng)
    /\ UNCHANGED <<script, agg_csv, call, first_ret, linregress_raises,
                   n_bootstrap, n_remove, out_res, boot_written>>

\* One iteration of `for i in range(n_bootstrap)'
BootIteration ==
    /\ script = "bootstrap_analysis"
    /\ UNCHANGED notOfBoot
    /\ bpc = "loop"
    /\ boot_i < n_bootstrap
    /\ LET drawn == np_random_choice(rng, Len(log_r))
           idx == drawn.indices
           br  == Take(log_r, idx)
           bd  == TakeD(log_d, idx)
           fit == calculate_slope(br, bd)
       IN  /\ rng' = drawn.rng
           /\ indices' = idx
           /\ boot_log_r' = br
           /\ boot_log_d' = bd
           /\ IF fit.raises
              THEN /\ bpc' = "raised"
                   /\ UNCHANGED <<bootstrap_slopes, bootstrap_r2s, boot_i>>
              ELSE /\ bootstrap_slopes' = Append(bootstrap_slopes, fit.slope)
                   /\ bootstrap_r2s' = Append(bootstrap_r2s, fit.r2)
                   /\ boot_i' = boot_i + 1
                   /\ bpc' = "loop"
    /\ UNCHANGED <<script, agg_csv, rng_before, all_r, all_d, call, first_ret,
                   linregress_raises, n_bootstrap, log_r, log_d, boot_ret,
                   n_remove, out_res, boot_written>>

\* After the loop: the statistics and the returned dict
BootReturn ==
    /\ script = "bootstrap_analysis"
    /\ UNCHANGED notOfBoot
    /\ bpc = "loop"
    /\ boot_i >= n_bootstrap
    /\ boot_ret' = [boot_ret EXCEPT !.returned = TRUE,
                                    !.bootstrap_slopes = bootstrap_slopes,
                                    !.bootstrap_r2s = bootstrap_r2s,
                                    !.slope_mean = FMean(bootstrap_slopes),
                                    !.slope_ci_lower = Percentile(bootstrap_slopes, 1),
                                    !.slope_ci_upper = Percentile(bootstrap_slopes, 39),
                                    !.r2_mean = FMean(bootstrap_r2s),
                                    !.r2_ci_lower = Percentile(bootstrap_r2s, 1),
                                    !.r2_ci_upper = Percentile(bootstrap_r2s, 39),
                                    !.n_samples = Len(log_r),
                                    !.n_bootstrap = n_bootstrap]
    /\ bpc' = "done"
    /\ UNCHANGED <<script, agg_csv, rng, rng_before, all_r, all_d, call,
                   first_ret, linregress_raises, n_bootstrap, log_r, log_d, boot_i,
                   indices, boot_log_r, boot_log_d, bootstrap_slopes,
                   bootstrap_r2s, n_remove, out_res, boot_written>>

\* A second call bootstrap_analysis(all_r, all_d, n_bootstrap) with the
\* arguments of the first, after code that left the generator in any state
BootAgain ==
    /\ script = "bootstrap_analysis"
    /\ UNCHANGED notOfBoot
    /\ bpc = "done"
    /\ call = 1
    /\ call' = 2
    /\ first_ret' = boot_ret
    /\ \E g \in Generators : EnterBootstrap(all_r, all_d, g)
    /\ UNCHANGED <<script, agg_csv, all_r, all_d, linregress_raises,
                   n_bootstrap, n_remove, out_res, boot_written>>

MaxRemove == 5

\* def outlier_sensitivity_test(all_r, all_d, n_remove=5)
DEFAULT_N_REMOVE == 5

\* np.argsort(residuals): the orders that are ascending in the residuals.
\* Among equal residuals the order is the sort's business.
ArgSorts(res) ==
    { p \in Permutations(1..Len(res)) :
        \A i \in 1..(Len(res) - 1) : res[p[i]] <= res[p[i + 1]] }

\* np.argsort(residuals)[-n:] as a set of positions: the last n of the
\* order, all of it when n exceeds its length
LastOf(p, n) == { p[j] : j \in { i \in 1..Len(p) : i > Len(p) - n } }

\* log_r[mask]: the entries whose position is not in `out', in their order
RECURSIVE Keep(_, _, _)
Keep(xs, out, i) ==
    IF i > Len(xs) THEN <<>>
    ELSE IF i \in out THEN Keep(xs, out, i + 1)
    ELSE <<xs[i]>> \o Keep(xs, out, i + 1)

\* linregress on the masked arrays: ValueError('Inputs must not be empty')
\* when nothing is left
RefitWithout(lr, ld, out) ==
    IF Keep(lr, out, 1) = <<>>
    THEN [raises |-> TRUE, slope |-> NaN, r2 |-> NaN, intercept |-> NaN]
    ELSE calculate_slope(Keep(lr, out, 1), Keep(ld, out, 1))

\* The loop `for n in range(1, n_remove + 1)' from n = k on, given the
\* entries recorded so far; it ends at n_remove or where the refit raises
RECURSIVE RemoveLoop(_, _, _, _, _, _)
RemoveLoop(lr, ld, p, k, upto, acc) ==
    IF k > upto THEN [raised |-> FALSE, remove |-> acc]
    ELSE LET out == LastOf(p, k)
             fit == RefitWithout(lr, ld, out)
         IN  IF fit.raises THEN [raised |-> TRUE, remove |-> acc]
             ELSE RemoveLoop(lr, ld, p, k + 1, upto,
                             Append(acc, [out |-> out, slope |-> fit.slope,
                                          r2 |-> fit.r2]))

NoOutlier == [done |-> FALSE, raised |-> FALSE, original |-> 0,
              residuals |-> <<>>, order |-> <<>>, remove |-> <<>>]

\* |log_d - (slope * log_r + intercept)|, in hundredths
Residuals(lr, ld, fit) ==
    [i \in 1..Len(lr) |->
        FAbs(ld[i] - ((fit.slope * lr[i]) \div 100 + fit.intercept))]

\* outlier_sensitivity_test(all_r, all_d, n_remove) on the loaded arrays once
\* bootstrap_analysis has returned: the call main makes, with n_remove left
\* at its default, or a call with a smaller n_remove.  remove[k] is what
\* the dict holds under 'remove_k' (slope) and 'remove_k_r2' (r2), with the
\* positions masked out for it.
OutlierTest ==
    /\ script = "bootstrap_analysis"
    /\ UNCHANGED notOfBoot
    /\ bpc = "done"
    /\ LET lr  == Map(all_r, Log10)
           ld  == Map(all_d, Log10)
           fit == calculate_slope(lr, ld)
       IN  IF fit.raises
           THEN /\ out_res' = [NoOutlier EXCEPT !.raised = TRUE]
                /\ bpc' = "test_raised"
                /\ n_remove' \in 1..MaxRemove
           ELSE \E p \in ArgSorts(Residuals(lr, ld, fit)), n \in 1..MaxRemove :
                  LET loop == RemoveLoop(lr, ld, p, 1, n, <<>>) IN
                  /\ n_remove' = n
                  /\ out_res' = [done |-> ~loop.raised, raised |-> loop.raised,
                                 original |-> fit.slope,
                                 residuals |-> Residuals(lr, ld, fit),
                                 order |-> p, remove |-> loop.remove]
                  /\ bpc' = IF loop.raised THEN "test_raised" ELSE "tested"
    /\ UNCHANGED <<script, agg_csv, rng, rng_before, all_r, all_d, call,
                   first_ret, linregress_raises, n_bootstrap, log_r, log_d,
                   boot_i, indices, boot_log_r, boot_log_d, bootstrap_slopes,
                   bootstrap_r2s, boot_ret, boot_written>>

\* plt.hist and np.percentile lines of plot_bootstrap_results on arrays that
\* hold a NaN: whether the histogram raises is the library's business
BootPlotMayRaise ==
    \E i \in 1..Len(bootstrap_slopes) :
        IsNaN(bootstrap_slopes[i]) \/ IsNaN(bootstrap_r2s[i])

\* main, after its call of outlier_sensitivity_test has returned:
\* plot_bootstrap_results, then save_statistics
BootOutputs ==
    /\ script = "bootstrap_analysis"
    /\ UNCHANGED notOfBoot
    /\ bpc = "tested"
    /\ n_remove = DEFAULT_N_REMOVE
    /\ \/ /\ bpc' = "end"
          /\ boot_written' = boot_written \cup {"Fig4_Bootstrap", "Bootstrap_Statistics"}
       \/ /\ BootPlotMayRaise
          /\ bpc' = "plot_raised"
          /\ UNCHANGED boot_written
    /\ UNCHANGED <<script, agg_csv, rng, rng_before, all_r, all_d, call,
                   first_ret, linregress_raises, n_bootstrap, log_r, log_d,
                   boot_i, indices, boot_log_r, boot_log_d, bootstrap_slopes,
                   bootstrap_r2s, boot_ret, n_remove, out_res>>

MaxBootstrap == 24
\* The resample counts tried: one, a few, many
NBootstraps == {1, 3, MaxBootstrap}

\* The CSV: absent, with the header only, with one galaxy, without a column
FourGalaxies ==
    << [R |-> 10, D_eff |-> 100], [R |-> 100, D_eff |-> 10000],
       [R |-> 4, D_eff |-> 1000], [R |-> 16, D_eff |-> 1700] >>

AggCsvs ==
    { [exists |-> FALSE, columns |-> {}, rows |-> <<>>],
      [exists |-> TRUE, columns |-> CsvColumns, rows |-> <<>>],
      [exists |-> TRUE, columns |-> CsvColumns,
       rows |-> << [R |-> 100, D_eff |-> 10000] >>],
      [exists |-> TRUE, columns |-> CsvColumns, rows |-> FourGalaxies] }
    \cup { [exists |-> TRUE, columns |-> CsvColumns \ {c},
            rows |-> FourGalaxies] : c \in CsvColumns }

InitBoot ==
    /\ script = "bootstrap_analysis"
    /\ agg_csv \in AggCsvs
    /\ rng \in Generators
    /\ rng_before = rng
    /\ all_r = <<>>
    /\ all_d = <<>>
    /\ call = 1
    /\ first_ret = NoReturn
    /\ linregress_raises \in BOOLEAN
    /\ n_bootstrap \in NBootstraps
    /\ log_r = <<>>
    /\ log_d = <<>>
    /\ boot_i = 0
    /\ indices = <<>>
    /\ boot_log_r = <<>>
    /\ boot_log_d = <<>>
    /\ bootstrap_slopes = <<>>
    /\ bootstrap_r2s = <<>>
    /\ bpc = "start"
    /\ boot_ret = NoReturn
    /\ n_remove = 0
    /\ out_res = NoOutlier
    /\ boot_written = {}

IdleBoot ==
    /\ agg_csv = [exists |-> FALSE, columns |-> {}, rows |-> <<>>]
    /\ rng = [seed |-> 42, pos |-> 0]
    /\ rng_before = rng
    /\ all_r = <<>>
    /\ all_d = <<>>
    /\ call = 1
    /\ first_ret = NoReturn
    /\ linregress_raises = FALSE
    /\ n_bootstrap = 0
    /\ log_r = <<>>
    /\ log_d = <<>>
    /\ boot_i = 0
    /\ indices = <<>>
    /\ boot_log_r = <<>>
    /\ boot_log_d = <<>>
    /\ bootstrap_slopes = <<>>
    /\ bootstrap_r2s = <<>>
    /\ bpc = "idle"
    /\ boot_ret = NoReturn
    /\ n_remove = 0
    /\ out_res = NoOutlier
    /\ boot_written = {}

NextBoot ==
    \/ BootStart
    \/ BootIteration
    \/ BootReturn
    \/ BootAgain
    \/ OutlierTest
    \/ BootOutputs

\* C9: in every iteration the resample has n_samples rows, every index lies
\* in 0..n_samples-1, and one index vector selects both log_r and log_d, so
\* every resampled pair is a row of the dataset.
C9_PairedResample ==
    script = "bootstrap_analysis" /\ indices # <<>> =>
      /\ Len(indices) = Len(log_r)
      /\ Len(boot_log_r) = Len(log_r)
      /\ Len(boot_log_d) = Len(log_r)
      /\ \A k \in 1..Len(indices) :
           /\ indices[k] \in 0..(Len(log_r) - 1)
           /\ boot_log_r[k] = log_r[indices[k] + 1]
           /\ boot_log_d[k] = log_d[indices[k] + 1]
           /\ \E j \in 1..Len(log_r) :
                boot_log_r[k] = log_r[j] /\ boot_log_d[k] = log_d[j]

\* A resample that repeats one row and leaves another one out has been drawn
\* from a dataset that holds a galaxy.
C9_Witness ==
    /\ script = "bootstrap_analysis"
    /\ Len(log_r) = 4
    /\ indices = <<2, 3, 0, 2>>
    /\ boot_i = 1
    /\ Len(bootstrap_slopes) = 1

\* C10: the loop ends after exactly n_bootstrap iterations, and the returned
\* arrays both have n_bootstrap entries, the reported 'n_bootstrap'.
C10_ExactCount ==
    script = "bootstrap_analysis" =>
      /\ bpc # "raised"
      /\ Len(bootstrap_slopes) = boot_i /\ Len(bootstrap_r2s) = boot_i
      /\ boot_i <= n_bootstrap
      /\ bpc = "done" =>
           /\ boot_i = n_bootstrap
           /\ boot_ret.n_bootstrap = n_bootstrap
           /\ Len(bootstrap_slopes) = boot_ret.n_bootstrap
           /\ Len(bootstrap_r2s) = boot_ret.n_bootstrap

\* C10 where the regression of no resample raises
C10_WhenNothingRaises == linregress_raises \/ C10_ExactCount

\* C11: a second call of bootstrap_analysis with the arguments of the first
\* returns what the first returned (the slope and R^2 arrays, their means and
\* confidence bounds), whatever state the generator was in before either
\* call; while it runs, its arrays are a prefix of the first call's.
C11_Deterministic ==
    script = "bootstrap_analysis" /\ call = 2 =>
      /\ bpc # "raised"
      /\ bootstrap_slopes = SubSeq(first_ret.bootstrap_slopes, 1, boot_i)
      /\ bootstrap_r2s = SubSeq(first_ret.bootstrap_r2s, 1, boot_i)
      /\ boot_ret.returned => boot_ret = first_ret

\* The second call has returned; the generator had drawn words since its
\* last seed when the second call began, and the resamples differ.
C11_Witness ==
    /\ script = "bootstrap_analysis"
    /\ call = 2
    /\ bpc = "done"
    /\ rng_before.pos > 0
    /\ Len(boot_ret.bootstrap_slopes) >= 3
    /\ boot_ret.slope_ci_lower < boot_ret.slope_ci_upper

(***************************************************************************)
(* plot_scaling_law.py: before and after the loop                          *)
(***************************************************************************)
NoScalingFit == [done |-> FALSE, slope |-> 0, r2 |-> 0]

\* plot_scaling_law.main run on its own, up to the loop: no file, return;
\* m_df['Galaxy'] and m_df['M'] raise KeyError on a table without them
ScalingStart ==
    /\ script = "plot_scaling_law"
    /\ UNCHANGED notOfPhase
    /\ spc = "start"
    /\ spc' = IF csv_cols = {} THEN "nofile"
              ELSE IF MissingColumn(csv_cols, {"Galaxy", "M"}) THEN "raised"
              ELSE "loop"
    /\ UNCHANGED <<script, files, fidx, results, ppc, csv, n_total, n_order,
                   n_chaos, sidx, scaling_data, hist, csv_cols, scaling_fit,
                   hpc, written>>

\* Drawing on a logarithmic axis from x_range = np.linspace(min*0.8, max*1.5)
\* with an infinite R or D_eff: whether savefig raises is the library's
\* business.
FigureMayRaise(rows) ==
    \E k \in 1..Len(rows) : ~IsFinite(rows[k].R) \/ ~IsFinite(rows[k].D_eff)

\* plot_scaling_law.main after the loop.  df = pd.DataFrame(scaling_data)
\* has no column at all when scaling_data is empty, and df['R'] in the
\* scatter call raises KeyError; otherwise the fit over the galaxies and
\* the filament points, the trend line and savefig.
ScalingFinish ==
    /\ script \in {"phase_analysis", "plot_scaling_law"}
    /\ UNCHANGED notOfPhase
    /\ script = "phase_analysis" => ppc = "done"
    /\ spc = "loop"
    /\ sidx > Len(files)
    /\ IF scaling_data = <<>>
       THEN spc' = "raised" /\ UNCHANGED <<scaling_fit, written>>
       ELSE LET fit == calculate_slope(Map(ScalingAllR(scaling_data), Log10),
                                       Map(ScalingAllD(scaling_data), Log10))
            IN  /\ scaling_fit' = [done |-> TRUE, slope |-> fit.slope, r2 |-> fit.r2]
                /\ \/ spc' = "done" /\ written' = written \cup {"Fig4"}
                   \/ /\ FigureMayRaise(scaling_data)
                      /\ spc' = "raised" /\ UNCHANGED written
    /\ UNCHANGED <<script, files, fidx, results, ppc, csv, n_total, n_order,
                   n_chaos, sidx, scaling_data, hist, csv_cols, hpc>>

\* The table a program run on its own finds: none; one that lacks a column;
\* the header alone; one galaxy, the first file of the data directory
PriorRow == << [Galaxy |-> 1, M |-> 250000, R |-> 4, D_eff |-> 16] >>
PriorCsvs ==
    { [cols |-> {}, rows |-> <<>>],
      [cols |-> CsvColumns, rows |-> <<>>],
      [cols |-> CsvColumns, rows |-> PriorRow] }
    \cup { [cols |-> CsvColumns \ {c}, rows |-> PriorRow] : c \in CsvColumns }

InitPlots ==
    /\ script \in {"plot_scaling_law", "plot_histogram"}
    /\ files \in UNION {[1..n -> SmallFiles] : n \in 0..MaxFiles}
    /\ \E c \in PriorCsvs : csv = c.rows /\ csv_cols = c.cols
    /\ fidx = 1
    /\ results = <<>>
    /\ ppc = "idle"
    /\ n_total = 0
    /\ n_order = 0
    /\ n_chaos = 0
    /\ sidx = 1
    /\ scaling_data = <<>>
    /\ hist = NoHist
    /\ spc = IF script = "plot_scaling_law" THEN "start" ELSE "idle"
    /\ scaling_fit = NoScalingFit
    /\ hpc = IF script = "plot_histogram" THEN "start" ELSE "idle"
    /\ written = {}

\* C14: every row of the scaling dataset has R > 0 and D_eff > 0: the rows
\* phase_analysis collects and writes, the rows plot_scaling_law recomputes,
\* the three filament points, and so every entry of the arrays load_data
\* builds from the written table, whose log10 the fits take.
AllPositive(xs) == \A i \in 1..Len(xs) : FGt(xs[i], 0)

C14_PositiveRows ==
    script = "phase_analysis" =>
      /\ \A k \in 1..Len(results) : FGt(results[k].R, 0) /\ FGt(results[k].D_eff, 0)
      /\ \A k \in 1..Len(csv) : FGt(csv[k].R, 0) /\ FGt(csv[k].D_eff, 0)
      /\ \A k \in 1..Len(scaling_data) :
           FGt(scaling_data[k].R, 0) /\ FGt(scaling_data[k].D_eff, 0)
      /\ \A k \in 1..Len(FILAMENT_DATA) :
           FILAMENT_DATA[k].R > 0 /\ FILAMENT_DATA[k].R * FILAMENT_DATA[k].v > 0
      /\ AllPositive(AllR(csv)) /\ AllPositive(AllD(csv))
      /\ AllPositive(AllR(scaling_data)) /\ AllPositive(AllD(scaling_data))

\* A galaxy with a sample of radius or velocity 0 or below, which the filter
\* removed, is a row of the written table and of the recomputed data.
C14_Witness ==
    /\ script = "phase_analysis"
    /\ ppc = "done" /\ sidx > Len(files)
    /\ \E i \in 1..Len(files) :
         /\ HasRow(csv, i) /\ HasRow(scaling_data, i)
         /\ \E k \in 1..Len(files[i].rows) :
              /\ files[i].rows[k].v \in {0, -1}
              /\ files[i].rows[k].r = 4

(***************************************************************************)
(* calculate_slope as a function of the dataset                            *)
(***************************************************************************)
MaxFitLen == 3
FitLens == 2..MaxFitLen
FitR == {10, 100, 1000}
FitD == {10, 1000, 100000}

NoFit == [done |-> FALSE, raises |-> FALSE, slope |-> 0, r2 |-> 0, intercept |-> 0]

InitFit ==
    /\ script = "calculate_slope"
    /\ \E n \in FitLens : fit_r \in [1..n -> FitR] /\ fit_d \in [1..n -> FitD]
    /\ fit_res = NoFit

IdleFit == fit_r = <<>> /\ fit_d = <<>> /\ fit_res = NoFit

\* calculate_slope(np.log10(all_r), np.log10(all_d))
CallSlope ==
    /\ script = "calculate_slope"
    /\ UNCHANGED notOfFit
    /\ ~fit_res.done
    /\ LET fit == calculate_slope(Map(fit_r, Log10), Map(fit_d, Log10))
       IN  fit_res' = [done |-> TRUE, raises |-> fit.raises, slope |-> fit.slope,
                       r2 |-> fit.r2, intercept |-> fit.intercept]
    /\ UNCHANGED <<script, fit_r, fit_d>>

NextFit == CallSlope

\* The dataset of the example
IsExampleFit ==
    /\ script = "calculate_slope"
    /\ fit_r = <<10, 100, 1000>>
    /\ fit_d = <<10, 1000, 100000>>
    /\ fit_res.done

\* C12 as stated: on R = [10, 100, 1000], D_eff = [10, 1000, 100000] the fit
\* gives slope 1.5, intercept 0 and R^2 = 1.
C12_SlopeThreeHalves ==
    IsExampleFit =>
      ~fit_res.raises /\ fit_res.slope = 150 /\ fit_res.intercept = 0 /\ fit_res.r2 = 100

\* C12, amended: on that dataset, whose logarithms are (1,1), (2,3), (3,5),
\* the fit gives slope 2, intercept -1 and R^2 = 1; and every dataset whose
\* logarithms lie on one rising or falling line has R^2 = 1.
C12_SlopeTwo ==
    /\ IsExampleFit =>
         ~fit_res.raises /\ fit_res.slope = 200 /\ fit_res.intercept = -100 /\ fit_res.r2 = 100
    /\ script = "calculate_slope" /\ fit_res.done /\ IsFinite(fit_res.slope) /\ fit_res.slope # 0
          /\ (\A i \in 1..Len(fit_r) :
                100 * Log10(fit_d[i]) = fit_res.slope * Log10(fit_r[i]) + 100 * fit_res.intercept)
         => fit_res.r2 = 100

C12_Witness == IsExampleFit /\ fit_res.slope = 200

InitPhase ==
    /\ script = "phase_analysis"
    /\ files \in PhaseFileLists
    /\ fidx = 1
    /\ results = <<>>
    /\ ppc = "loop"
    /\ csv = <<>>
    /\ n_total = 0
    /\ n_order = 0
    /\ n_chaos = 0
    /\ sidx = 1
    /\ scaling_data = <<>>
    /\ hist = NoHist
    /\ csv_cols = {}
    /\ spc = "loop"
    /\ scaling_fit = NoScalingFit
    /\ hpc = "start"
    /\ written = {}

IdlePhase ==
    /\ files = <<>>
    /\ fidx = 1
    /\ results = <<>>
    /\ ppc = "idle"
    /\ csv = <<>>
    /\ n_total = 0
    /\ n_order = 0
    /\ n_chaos = 0
    /\ sidx = 1
    /\ scaling_data = <<>>
    /\ hist = NoHist
    /\ csv_cols = {}
    /\ spc = "idle"
    /\ scaling_fit = NoScalingFit
    /\ hpc = "idle"
    /\ written = {}

IdleQics == g_in = 0 /\ qres = NoQics

NextPhase ==
    \/ PhaseLoopStep
    \/ PhaseFinish
    \/ ScalingLoopStep
    \/ ScalingFinish
    \/ PlotHistogram

\* plot_scaling_law.py and plot_histogram.py run on their own
NextPlots ==
    \/ ScalingStart
    \/ ScalingLoopStep
    \/ ScalingFinish
    \/ PlotHistogram

(***************************************************************************)
(* data/qic_s_analysis.py: the landscape of NGC2403_rotmod.dat             *)
(***************************************************************************)
MOCK_POINTS == 100

\* r = np.linspace(0.1, 20, 100), in 0.001 kpc
MOCK_R == [i \in 1..MOCK_POINTS |-> 100 + ((i - 1) * 19900) \div (MOCK_POINTS - 1)]

\* v_baryon = 100 * (r / 2) * np.exp(-r / 6) + 30, in 0.1 km/s
MOCK_V_BARYON ==
    << 349, 443, 531, 613, 689, 760, 825, 886, 942, 994,
       1042, 1086, 1126, 1163, 1196, 1227, 1254, 1279, 1300, 1320,
       1337, 1351, 1364, 1375, 1384, 1391, 1396, 1400, 1402, 1404,
       1403, 1402, 1400, 1396, 1392, 1386, 1380, 1373, 1365, 1357,
       1348, 1339, 1329, 1318, 1307, 1296, 1284, 1272, 1260, 1248,
       1235, 1222, 1209, 1196, 1182, 1169, 1155, 1142, 1128, 1115,
       1101, 1088, 1074, 1060, 1047, 1034, 1020, 1007, 994, 981,
       968, 955, 942, 930, 917, 905, 893, 881, 869, 857,
       845, 834, 823, 812, 801, 790, 779, 769, 759, 749,
       739, 729, 719, 710, 701, 691, 683, 674, 665, 657 >>
\* v_obs = v_baryon + (130 - v_baryon) * (1 - np.exp(-r/5)), in 0.1 km/s
MOCK_V_OBS ==
    << 368, 493, 604, 703, 790, 867, 934, 994, 1046, 1091,
       1131, 1165, 1195, 1220, 1242, 1261, 1276, 1289, 1300, 1309,
       1316, 1322, 1326, 1329, 1331, 1333, 1333, 1333, 1333, 1332,
       1330, 1329, 1327, 1325, 1323, 1321, 1318, 1316, 1314, 1312,
       1309, 1307, 1305, 1303, 1301, 1299, 1298, 1296, 1294, 1293,
       1291, 1290, 1289, 1288, 1287, 1286, 1285, 1284, 1284, 1283,
       1283, 1282, 1282, 1281, 1281, 1281, 1281, 1281, 1281, 1280,
       1280, 1281, 1281, 1281, 1281, 1281, 1281, 1281, 1282, 1282,
       1282, 1282, 1283, 1283, 1283, 1284, 1284, 1284, 1285, 1285,
       1285, 1286, 1286, 1286, 1287, 1287, 1287, 1288, 1288, 1288 >>
Undefined == [defined |-> FALSE, val |-> <<>>]
Defined(xs) == [defined |-> TRUE, val |-> xs]

\* The largest finite double, which np.nan_to_num puts in the place of inf
FLT_MAX == 1999999999

\* np.nan_to_num(x) with its defaults
nan_to_num(x) ==
    IF IsNaN(x) THEN 0
    ELSE IF x = PInf THEN FLT_MAX
    ELSE IF x = NInf THEN -FLT_MAX
    ELSE x

\* np.max: a NaN is handed on
NpMax(xs) ==
    IF \E i \in 1..Len(xs) : IsNaN(xs[i]) THEN NaN
    ELSE CHOOSE x \in {xs[i] : i \in 1..Len(xs)} :
            \A i \in 1..Len(xs) : x >= xs[i]

\* The sum of xs[lo..hi]
RECURSIVE SumRange(_, _, _)
SumRange(xs, lo, hi) ==
    IF lo > hi THEN 0
    ELSE IF lo = hi THEN xs[lo]
    ELSE FAdd(SumRange(xs, lo, (lo + hi) \div 2),
              SumRange(xs, (lo + hi) \div 2 + 1, hi))

\* np.cumsum
CumSum(xs) == [i \in 1..Len(xs) |-> SumRange(xs, 1, i)]

\* l.23-56: what the names r, v_obs and v_baryon are bound to afterwards
LoadOrGenerate(f) ==
    IF ~f.exists THEN
        [mode |-> "simulation", r |-> Defined(MOCK_R),
         v_obs |-> Defined(MOCK_V_OBS), v_baryon |-> Defined(MOCK_V_BARYON)]
    ELSE IF ~f.parses \/ ~TwoDimensional(f) THEN
        [mode |-> "read_failed", r |-> Undefined, v_obs |-> Undefined,
         v_baryon |-> Undefined]
    ELSE IF f.ncols < 6 THEN
        [mode |-> "read_failed", r |-> Defined(Column(f, "r")),
         v_obs |-> Defined(Column(f, "v_obs")), v_baryon |-> Undefined]
    ELSE
        [mode |-> "real", r |-> Defined(Column(f, "r")),
         v_obs |-> Defined(Column(f, "v_obs")),
         v_baryon |-> Defined([i \in 1..Len(f.rows) |->
            FSqrt(FAdd(FAdd(Square(FAbs(f.rows[i].v_gas)),
                            Square(FAbs(f.rows[i].v_disk))),
                       Square(FAbs(f.rows[i].v_bul))))])]

\* l.65-74: r_safe, force_diff, force_diff_safe and H_eff
EffectiveHamiltonian(r, v_obs, v_baryon) ==
    LET n               == Len(r)
        r_safe          == [i \in 1..n |-> IF r[i] = 0 THEN NaN ELSE r[i]]
        force_diff      == [i \in 1..n |->
                              FDiv(FSub(Square(v_obs[i]), Square(v_baryon[i])), r_safe[i])]
        force_diff_safe == Map(force_diff, nan_to_num)
        sums            == CumSum(force_diff_safe)
    IN  IF n > 1 THEN [i \in 1..n |-> FMul(sums[i], FSub(r[2], r[1]))]
        ELSE [i \in 1..n |-> 0]

\* l.77: H_eff / np.max(H_eff), in thousandths
Normalise(H) == [i \in 1..Len(H) |-> FDiv(FMul(H[i], 1000), NpMax(H))]

\* The rows a file of the working directory may hold
LandRows ==
    { DatRow(1024, 128, 0, 64, 0),  DatRow(2048, 128, 0, 128, 0),
      DatRow(0, 128, 0, 64, 0),     DatRow(2048, 64, -128, 0, 0),
      DatRow(4096, 128, 0, 0, 64) }

MaxLandLen == 3

LandSeqs(n) == [1..n -> LandRows]

LandFiles ==
    {DatMissing, DatGarbage}
    \cup {DatTable(6, rows) : rows \in UNION {LandSeqs(n) : n \in 0..MaxLandLen}}
    \cup {DatTable(c, <<DatRow(1024, 128, 0, 64, 0), DatRow(2048, 128, 0, 128, 0)>>) :
            c \in 1..5}

InitLand ==
    /\ script = "qic_s_analysis"
    /\ land_file \in LandFiles
    /\ land_pc = "start"
    /\ land_mode = "none"
    /\ land_r = Undefined
    /\ land_v_obs = Undefined
    /\ land_v_baryon = Undefined
    /\ H_eff = <<>>
    /\ H_eff_norm = <<>>
    /\ land_written = {}

IdleLand ==
    /\ land_file = DatMissing
    /\ land_pc = "idle"
    /\ land_mode = "none"
    /\ land_r = Undefined
    /\ land_v_obs = Undefined
    /\ land_v_baryon = Undefined
    /\ H_eff = <<>>
    /\ H_eff_norm = <<>>
    /\ land_written = {}

\* 1. DATA LOADING / GENERATION
LandLoad ==
    /\ script = "qic_s_analysis"
    /\ UNCHANGED notOfLand
    /\ land_pc = "start"
    /\ LET l == LoadOrGenerate(land_file) IN
         /\ land_mode' = l.mode
         /\ land_r' = l.r
         /\ land_v_obs' = l.v_obs
         /\ land_v_baryon' = l.v_baryon
    /\ land_pc' = "loaded"
    /\ UNCHANGED <<script, land_file, H_eff, H_eff_norm, land_written>>

\* 2. QIC-S INVERSE ANALYSIS: r.copy() and v_baryon are NameErrors when the
\* names are not bound
LandAnalyse ==
    /\ script = "qic_s_analysis"
    /\ UNCHANGED notOfLand
    /\ land_pc = "loaded"
    /\ IF land_r.defined /\ land_v_obs.defined /\ land_v_baryon.defined
       THEN LET H == EffectiveHamiltonian(land_r.val, land_v_obs.val,
                                          land_v_baryon.val)
            IN  /\ H_eff' = H
                /\ H_eff_norm' = Normalise(H)
                /\ land_pc' = "analysed"
       ELSE /\ land_pc' = "name_error"
            /\ UNCHANGED <<H_eff, H_eff_norm>>
    /\ UNCHANGED <<script, land_file, land_mode, land_r, land_v_obs,
                   land_v_baryon, land_written>>

\* 3. and 4.: the figure; what pcolormesh, colorbar and savefig do with a
\* value that is not finite is the library's
LandPlot ==
    /\ script = "qic_s_analysis"
    /\ UNCHANGED notOfLand
    /\ land_pc = "analysed"
    /\ land_written' \in
         (IF \E i \in 1..Len(H_eff_norm) : ~IsFinite(H_eff_norm[i])
          THEN {{}, {"QIC-S_Landscape_NGC2403.png"}}
          ELSE {{"QIC-S_Landscape_NGC2403.png"}})
    /\ land_pc' = IF land_written' = {} THEN "plot_raised" ELSE "done"
    /\ UNCHANGED <<script, land_file, land_mode, land_r, land_v_obs,
                   land_v_baryon, H_eff, H_eff_norm>>

NextLand == LandLoad \/ LandAnalyse \/ LandPlot

\* np.min: a NaN is handed on
NpMin(xs) == FNeg(NpMax(Map(xs, FNeg)))

\* np.nan_to_num(x, nan=0.0, posinf=0.0, neginf=0.0)
NonFiniteToZero(x) == IF IsFinite(x) THEN x ELSE 0

\* np.gradient(r) times 2: the one-sided difference at the two ends, the
\* central one inside
Gradient2(r) ==
    LET n == Len(r) IN
    [i \in 1..n |-> IF i = 1 THEN FMul(2, FSub(r[2], r[1]))
                    ELSE IF i = n THEN FMul(2, FSub(r[n], r[n - 1]))
                    ELSE FSub(r[i + 1], r[i - 1])]

\* The h_eff_norm of compute_hamiltonian_landscape(r, v_obs, v_baryon), each
\* value as the fraction num / den
hamiltonian_landscape(d) ==
    LET n          == Len(d.r)
        v_bar_sq   == SparcBaryonSq(d.v_gas, d.v_disk, d.v_bul)
        force_diff == [i \in 1..n |->
                         NonFiniteToZero(FDiv(FSub(Weighted(d.v_obs[i], 10), v_bar_sq[i]),
                                              d.r[i]))]
        dr         == Gradient2(d.r)
        h_eff      == CumSum([i \in 1..n |-> FMul(force_diff[i], dr[i])])
        h_range    == FSub(NpMax(h_eff), NpMin(h_eff))
        valid      == {i \in 1..n : FGt(d.r[i], 0) /\ FGt(d.v_obs[i], 0)}
    IN  IF Cardinality(valid) < 5
        THEN [i \in 1..n |-> [num |-> 0, den |-> 1]]
        ELSE IF FGt(h_range, 0)
        THEN [i \in 1..n |-> [num |-> FSub(h_eff[i], NpMin(h_eff)), den |-> h_range]]
        ELSE [i \in 1..n |-> [num |-> 0, den |-> 1]]

NextQics == CallQics

InitOfPhase == InitPhase /\ IdleQics /\ IdleDat /\ IdleBoot /\ IdleFit /\ IdleUnit /\ IdleLand
InitOfQics  == InitQics /\ IdlePhase /\ IdleDat /\ IdleBoot /\ IdleFit /\ IdleUnit /\ IdleLand
InitOfDat   == InitDat /\ IdlePhase /\ IdleQics /\ IdleBoot /\ IdleFit /\ IdleUnit /\ IdleLand
InitOfBoot  == InitBoot /\ IdlePhase /\ IdleQics /\ IdleDat /\ IdleFit /\ IdleUnit /\ IdleLand
InitOfFit   == InitFit /\ IdlePhase /\ IdleQics /\ IdleDat /\ IdleBoot /\ IdleUnit /\ IdleLand
InitOfPlots == InitPlots /\ IdleQics /\ IdleDat /\ IdleBoot /\ IdleFit /\ IdleUnit /\ IdleLand

InitOfUnit  == InitUnit /\ IdlePhase /\ IdleQics /\ IdleDat /\ IdleBoot /\ IdleFit /\ IdleLand
InitOfLand  == InitLand /\ IdlePhase /\ IdleQics /\ IdleDat /\ IdleBoot /\ IdleFit /\ IdleUnit

SpecPhase == InitOfPhase /\ [][NextPhase]_vars
SpecQics  == InitOfQics /\ [][NextQics]_vars
SpecDat   == InitOfDat /\ [][NextDat]_vars
SpecBoot  == InitOfBoot /\ [][NextBoot]_vars
SpecFit   == InitOfFit /\ [][NextFit]_vars
SpecPlots == InitOfPlots /\ [][NextPlots]_vars
SpecUnit  == InitOfUnit /\ [][NextUnit]_vars
SpecLand  == InitOfLand /\ [][NextLand]_vars

\* The batch scripts: everything that loops over rotation-curve files
NextBatch == NextPhase \/ NextDat
SpecBatch == (InitOfPhase \/ InitOfDat) /\ [][NextBatch]_vars

(***************************************************************************)
(* The sign of the component velocities                                    *)
(***************************************************************************)
Components == {"v_gas", "v_disk", "v_bul"}

\* The file with the entry of column c in line j negated
NegateCell(f, j, c) == [f EXCEPT !.rows[j][c] = FNeg(@)]
NegateIn(t, j, c) ==
    [cwd  |-> IF j <= Len(t.cwd.rows) THEN NegateCell(t.cwd, j, c) ELSE t.cwd,
     data |-> IF j <= Len(t.data.rows) THEN NegateCell(t.data, j, c) ELSE t.data]

\* What the running script composes from a target: the squared baryonic
\* velocity, the baryonic acceleration and the predicted velocity
Composed(t) ==
    LET l == CASE script = "zeroparam_archive" ->
                    (LET d == load_galaxy_data_archive(t) IN
                     IF d.ok THEN ArchiveLocals(d) ELSE NotLoaded)
               [] script = "zeroparam_data" ->
                    (LET d == load_galaxy_data_data(t) IN
                     IF d.ok THEN DataLocals(d) ELSE NotLoaded)
               [] OTHER ->
                    (LET d == load_sparc_file(t) IN
                     IF d.ok THEN AnalyzerLocals(d) ELSE NotLoaded)
    IN  <<l.loaded, l.v_bar_sq, l.g_bar, l.v_pred>>

\* The v3911 script reads the columns as they are
RawColumns(f) ==
    [r |-> Column(f, "r"), v_gas |-> Column(f, "v_gas"),
     v_disk |-> Column(f, "v_disk")]

\* C23: replacing any gas, disk or bulge velocity entry by its negation
\* leaves the composed baryonic velocity, the baryonic acceleration and the
\* predicted velocity unchanged, in every script that composes them.
C23_SignInsensitive ==
    script \in {"zeroparam_archive", "zeroparam_data", "qics_analyzer"} =>
      \A k \in 1..Len(targets) :
         k < tidx =>
           \A j \in 1..6, c \in Components :
              /\ Composed(NegateIn(targets[k], j, c)) = Composed(targets[k])
              /\ j <= Len(targets[k].cwd.rows) =>
                   V3911Locals(RawColumns(NegateCell(targets[k].cwd, j, c)))
                     = V3911Locals(RawColumns(targets[k].cwd))

\* A file with a negative gas velocity next to a disk and a bulge velocity
\* has been analysed
C23_Witness ==
    /\ script = "qics_analyzer"
    /\ tidx = 2
    /\ zlocals.loaded
    /\ targets[1].cwd.ncols = 6
    /\ \E j \in 1..Len(targets[1].cwd.rows) :
         /\ targets[1].cwd.rows[j].v_gas < 0
         /\ targets[1].cwd.rows[j].v_disk > 0
         /\ targets[1].cwd.rows[j].v_bul > 0
         /\ zlocals.v_bar_sq[j] > 0

(***************************************************************************)
(* The effective Hamiltonian and its normalised form                       *)
(***************************************************************************)
LandAnalysed == land_pc \in {"analysed", "done", "plot_raised"}

Constant(xs) == \A i, j \in 1..Len(xs) : xs[i] = xs[j]

\* C24: in data/qic_s_analysis.py the effective Hamiltonian and its
\* normalised form hold finite values only, the normalised values lie in
\* [0, 1], and they are all 0 when the cumulative sum is constant.
C24_FiniteUnitRange ==
    LandAnalysed =>
      /\ \A i \in 1..Len(H_eff) : IsFinite(H_eff[i])
      /\ \A i \in 1..Len(H_eff_norm) :
           /\ IsFinite(H_eff_norm[i])
           /\ H_eff_norm[i] >= 0
           /\ H_eff_norm[i] <= 1000
      /\ Constant(H_eff) => \A i \in 1..Len(H_eff_norm) : H_eff_norm[i] = 0

\* What the script does keep: the NaN of a radius 0 enters the cumulative
\* sum as 0 and H_eff is finite; the mock data give values in [0, 1]
C24_NaNZeroed ==
    LandAnalysed =>
      /\ \A i \in 1..Len(H_eff) : IsFinite(H_eff[i])
      /\ land_mode = "simulation" =>
           \A i \in 1..Len(H_eff_norm) :
              H_eff_norm[i] >= 0 /\ H_eff_norm[i] <= 1000

\* compute_hamiltonian_landscape of qics_analyzer.py on the files of the
\* model: finite, in [0, 1], all 0 when the cumulative sum does not vary
C24_AnalyzerLandscape ==
    script = "qics_analyzer" =>
      \A k \in 1..Len(targets) :
         LET d == load_sparc_file(targets[k]) IN
         (k < tidx /\ d.ok) =>
            LET h == hamiltonian_landscape(d) IN
            \A i \in 1..Len(h) :
               /\ h[i].den > 0
               /\ IsFinite(h[i].num) /\ IsFinite(h[i].den)
               /\ 0 <= h[i].num /\ h[i].num <= h[i].den

\* A file whose cumulative sum varies has been through the analyzer
C24_AnalyzerVaries ==
    /\ script = "qics_analyzer"
    /\ tidx = 2
    /\ LET d == load_sparc_file(targets[1]) IN
         /\ d.ok
         /\ \E i \in 1..Len(d.r) : d.r[i] = 0
         /\ \E i \in 1..Len(d.r) : hamiltonian_landscape(d)[i].num > 0

(***************************************************************************)
(* qic_s_analysis.py on a file it cannot read                              *)
(***************************************************************************)
\* C27: when the file exists and reading it fails, the analysis runs on
\* defined r, v_obs and v_baryon and the script completes as it does when
\* the file is absent.
C27_FallsBackToSimulation ==
    (land_mode = "read_failed" /\ land_pc # "loaded") =>
       /\ land_r.defined /\ land_v_obs.defined /\ land_v_baryon.defined
       /\ land_pc \in {"analysed", "done"}
       /\ land_pc = "done" =>
            land_written = {"QIC-S_Landscape_NGC2403.png"}

\* What the script does: with the file absent it runs on the mock arrays
\* and saves the figure; after a failed read it stops with a NameError
C27_AbsentCompletes ==
    /\ (land_mode = "simulation" /\ land_pc # "loaded") =>
          /\ land_r = Defined(MOCK_R)
          /\ land_pc \in {"analysed", "done"}
          /\ land_pc = "done" => land_written = {"QIC-S_Landscape_NGC2403.png"}
    /\ (land_mode = "read_failed" /\ land_pc # "loaded") =>
          /\ land_pc = "name_error"
          /\ ~land_v_baryon.defined
          /\ land_written = {}
    /\ land_mode = "read_failed" <=>
          /\ land_pc \notin {"start", "idle"}
          /\ land_file.exists
          /\ ~land_file.parses \/ ~HasColumn(land_file, 5)

(***************************************************************************)
(* The phase metric of qics_analyzer and of phase_analysis                 *)
(***************************************************************************)
\* What QICSAnalyzer.load_sparc_file hands on of a file of the phase
\* pipeline: np.loadtxt keeps a line that holds a NaN, and columns 0 and 1
\* are r and v_obs
AnalyzerView(f) ==
    [ok |-> TRUE, r |-> [i \in 1..Len(f.rows) |-> f.rows[i].r],
     v_obs |-> [i \in 1..Len(f.rows) |-> f.rows[i].v]]

\* A file both programs read
BothRead(i) ==
    /\ script = "phase_analysis"
    /\ i \in 1..Len(files) /\ i < fidx
    /\ files[i].kind = "table" /\ files[i].cols >= 2 /\ Len(files[i].rows) >= 2

\* C25: for any galaxy file compute_hamiltonian_landscape and
\* calculate_galaxy_metrics yield the same phase metric M and the same
\* ordered/chaotic classification.
C25_SameMetric ==
    \A i \in 1..Len(files) :
       BothRead(i) =>
          LET m == calculate_galaxy_metrics(files[i])
              a == hamiltonian_phase_metric(AnalyzerView(files[i]))
          IN  /\ m.some
              /\ a = m.M
              /\ (classify_phase(a) = 4) <=> FGe(m.M, THRESHOLD)

\* The two agree on every file with 5 or more samples of positive radius and
\* velocity and no line that dropna removes: the same filter, the same gate,
\* the same variance, the same threshold
C25_AlignedWhenMeasured ==
    \A i \in 1..Len(files) :
       (BothRead(i) /\ Measured(i)
          /\ \A k \in 1..Len(files[i].rows) : ~IsNaN(files[i].rows[k].rest)) =>
          LET m == calculate_galaxy_metrics(files[i])
              a == hamiltonian_phase_metric(AnalyzerView(files[i]))
          IN  /\ m.some
              /\ a = m.M
              /\ (classify_phase(a) = 4) <=> FGe(m.M, THRESHOLD)

\* Below the gate the analyzer has the metric 999.0 and phase 4 where
\* phase_analysis has none
C25_SentinelBelowGate ==
    \A i \in 1..Len(files) :
       (BothRead(i) /\ Cardinality(Positive(files[i])) < MIN_POINTS) =>
          /\ ~calculate_galaxy_metrics(files[i]).some
          /\ hamiltonian_phase_metric(AnalyzerView(files[i])) = SENTINEL_METRIC
          /\ classify_phase(SENTINEL_METRIC) = 4

(***************************************************************************)
(* The dataset of the scaling-law fit and of the bootstrap                 *)
(***************************************************************************)
LastThree(xs) == SubSeq(xs, Len(xs) - 2, Len(xs))

\* plot_scaling_law has fitted, in the run of phase_analysis that wrote the
\* aggregate table
ScalingFitted == script = "phase_analysis" /\ spc = "done" /\ scaling_fit.done

\* C26: the arrays plot_scaling_law fits are the arrays load_data of
\* bootstrap_analysis builds from the aggregate table: the galaxy (R, D_eff)
\* rows recomputed from the files are the rows of the table, in its order,
\* and the last three entries are the same three reference points with
\* D_eff = radius * velocity.
C26_SameDataset ==
    /\ FILAMENT_DATA_PLOT = FILAMENT_DATA
    /\ ScalingFitted =>
         /\ ScalingAllR(scaling_data) = AllR(csv)
         /\ ScalingAllD(scaling_data) = AllD(csv)
         /\ Len(scaling_data) = Len(csv)
         /\ LastThree(ScalingAllR(scaling_data)) = <<50, 1700, 15000>>
         /\ LastThree(AllR(csv)) = <<50, 1700, 15000>>
         /\ LastThree(ScalingAllD(scaling_data)) = <<50 * 110, 1700 * 110, 15000 * 110>>
         /\ LastThree(AllD(csv)) = <<50 * 110, 1700 * 110, 15000 * 110>>
         /\ \A k \in 1..Len(csv) :
              /\ ~IsNaN(csv[k].R) /\ ~IsNaN(csv[k].D_eff)
              /\ scaling_data[k].Galaxy = csv[k].Galaxy

\* Two galaxies, of different D_eff, are in the table and in the fit
C26_Witness ==
    /\ ScalingFitted
    /\ Len(csv) = 2
    /\ Len(scaling_data) = 2
    /\ csv[1].D_eff # csv[2].D_eff
    /\ Len(ScalingAllR(scaling_data)) = 5

(***************************************************************************)
(* The statistics of analyze_single_galaxy                                 *)
(***************************************************************************)
ZeroParam == script \in {"zeroparam_archive", "zeroparam_data"}

\* The file behind the k-th result
FileOfResult(k) == FirstExisting(targets[zresults[k].name])

\* C28: the mean deviation and the RMS of every galaxy that loads are
\* finite, also when a sample has an observed velocity of 0 or below.
C28_FiniteStatistics ==
    ZeroParam =>
      \A k \in 1..Len(zresults) :
         IsFinite(zresults[k].deviation) /\ IsFinite(zresults[k].rms)

\* The archive script on a galaxy with a sample of v_obs = 0: the RMS is
\* finite, the deviation is not
C28_ZeroObservedDiverges ==
    script = "zeroparam_archive" =>
      \A k \in 1..Len(zresults) :
         (\E i \in 1..Len(FileOfResult(k).rows) : FileOfResult(k).rows[i].v_obs = 0) =>
            ~IsFinite(zresults[k].deviation) /\ IsFinite(zresults[k].rms)

\* The archive script, which clamps the radius, on galaxies whose observed
\* velocities are all numbers other than 0: both statistics are finite
C28_FiniteWhenObserved ==
    script = "zeroparam_archive" =>
      \A k \in 1..Len(zresults) :
         (\A i \in 1..Len(FileOfResult(k).rows) :
             /\ IsFinite(FileOfResult(k).rows[i].v_obs)
             /\ FileOfResult(k).rows[i].v_obs # 0) =>
            IsFinite(zresults[k].deviation) /\ IsFinite(zresults[k].rms)

\* Such a galaxy has been analysed by the archive script
C28_ZeroObservedAnalysed ==
    /\ script = "zeroparam_archive"
    /\ Len(zresults) > 0
    /\ \E i \in 1..Len(FileOfResult(1).rows) : FileOfResult(1).rows[i].v_obs = 0

(***************************************************************************)
(* The regression of a resample                                            *)
(***************************************************************************)
\* The dataset has two rows of different R
DistinctR == \E i, j \in 1..Len(all_r) : all_r[i] # all_r[j]

\* C29: for a dataset with two rows of distinct R no resample makes the
\* regression raise or return NaN: every bootstrap slope and R2 is finite,
\* and so are the mean and the percentile bounds.
C29_EveryResampleFits ==
    (script = "bootstrap_analysis" /\ DistinctR) =>
       /\ bpc # "raised"
       /\ \A k \in 1..Len(bootstrap_slopes) :
             IsFinite(bootstrap_slopes[k]) /\ IsFinite(bootstrap_r2s[k])
       /\ boot_ret.returned =>
             /\ IsFinite(boot_ret.slope_mean) /\ IsFinite(boot_ret.r2_mean)
             /\ IsFinite(boot_ret.slope_ci_lower) /\ IsFinite(boot_ret.slope_ci_upper)

\* The regression of a resample of finite values raises, or gives NaN, only
\* when the resample repeats one value of R
C29_OnlyConstantResample ==
    (script = "bootstrap_analysis" /\ indices # <<>>
       /\ \A i \in 1..Len(log_r) : IsFinite(log_r[i]) /\ IsFinite(log_d[i])) =>
       /\ bpc = "raised" => Constant(boot_log_r)
       /\ (bpc = "loop" /\ Len(bootstrap_slopes) > 0
             /\ ~IsFinite(bootstrap_slopes[Len(bootstrap_slopes)])) =>
            Constant(boot_log_r)

\* The resample of one repeated row was drawn from a dataset of four rows
\* of distinct R
C29_ConstantResampleDrawn ==
    /\ script = "bootstrap_analysis"
    /\ Len(all_r) = 4
    /\ \A i, j \in 1..4 : i # j => all_r[i] # all_r[j]
    /\ indices # <<>>
    /\ Constant(indices)

(***************************************************************************)
(* The three classes of the archive ZeroParam analysis                     *)
(***************************************************************************)
\* The status printed for a galaxy in the loop of main
StatusArchive(dev) ==
    IF FLt(FAbs(dev), 100) THEN "STANDARD"
    ELSE IF FLt(FAbs(dev), 250) THEN "INTERMEDIATE" ELSE "SIGNAL"

ColourOfStatus(st) ==
    CASE st = "STANDARD" -> "green"
      [] st = "INTERMEDIATE" -> "orange"
      [] st = "SIGNAL" -> "red"

WithStatus(st) ==
    Cardinality({k \in 1..Len(zresults) : StatusArchive(zresults[k].deviation) = st})

\* main has saved the chart and printed the summary
ArchiveSummarised ==
    script = "zeroparam_archive" /\ zpc = "done" /\ zwritten # {}

OnePartition ==
    /\ zsummary.standard + zsummary.intermediate + zsummary.signal = Len(zresults)
    /\ zsummary.standard = WithStatus("STANDARD")
    /\ zsummary.intermediate = WithStatus("INTERMEDIATE")
    /\ zsummary.signal = WithStatus("SIGNAL")
    /\ \A k \in 1..Len(zresults) :
          zsummary.colors[k] = ColourOfStatus(StatusArchive(zresults[k].deviation))

\* C30: the printed status, the bar colour and the summary counts are one
\* three-way partition of |deviation|, and the three counts add up to the
\* number of results, for every deviation value.
C30_OnePartition == ArchiveSummarised => OnePartition

\* The three places agree whenever no deviation is NaN, an infinite one
\* included, and the status and the colour agree always
C30_PartitionOfNumbers ==
    ArchiveSummarised =>
      /\ (\A k \in 1..Len(zresults) : ~IsNaN(zresults[k].deviation)) => OnePartition
      /\ \A k \in 1..Len(zresults) :
            zsummary.colors[k] = ColourOfStatus(StatusArchive(zresults[k].deviation))

\* A galaxy of deviation NaN is a red SIGNAL bar that no count holds
C30_NaNUncounted ==
    ArchiveSummarised =>
      zsummary.standard + zsummary.intermediate + zsummary.signal
        = Cardinality({k \in 1..Len(zresults) : ~IsNaN(zresults[k].deviation)})

\* Two galaxies, one of them with an infinite deviation, are summarised
C30_InfiniteCounted ==
    /\ ArchiveSummarised
    /\ Len(zresults) = 2
    /\ \E k \in 1..2 : zresults[k].deviation = PInf
    /\ zsummary.signal >= 1

(***************************************************************************)
(* QICSAnalyzer.analyze on a galaxy of few samples                         *)
(***************************************************************************)
\* The number of samples of a loaded file with r > 0 and v_obs > 0
PositiveSamples(d) ==
    Cardinality({i \in 1..Len(d.r) : FGt(d.r[i], 0) /\ FGt(d.v_obs[i], 0)})

\* The k-th result of qics_analyzer.main is the analysis of a file that
\* loaded with fewer than 5 such samples
FewSamples(k) ==
    /\ k \in 1..Len(zresults)
    /\ zresults[k].some
    /\ LET d == load_sparc_file(targets[k]) IN d.ok /\ PositiveSamples(d) < 5

\* C17: in QICSAnalyzer.analyze a galaxy with fewer than 5 samples passing
\* the positivity filter is excluded with no phase metric computed: its
\* result carries no numeric phase metric and no phase classification.
C17_NoMetricBelowFive ==
    script = "qics_analyzer" =>
      \A k \in 1..Len(zresults) :
         FewSamples(k) =>
           /\ IsNaN(zresults[k].phase_metric)
           /\ zresults[k].phase \notin {4, 5}

\* What the code does instead: the metric is the number 999.0 and the galaxy
\* is classified as Phase 4 (chaos)
C17_SentinelClassified ==
    script = "qics_analyzer" =>
      \A k \in 1..Len(zresults) :
         FewSamples(k) =>
           /\ zresults[k].phase_metric = SENTINEL_METRIC
           /\ zresults[k].phase = 4

(***************************************************************************)
(* outlier_sensitivity_test                                                *)
(***************************************************************************)
\* outlier_sensitivity_test has been called on the loaded arrays
OutlierTestCalled ==
    script = "bootstrap_analysis" /\ n_remove > 0

\* The absolute residuals of the fit on the full data
FullResiduals ==
    LET lr == Map(all_r, Log10)
        ld == Map(all_d, Log10)
    IN  Residuals(lr, ld, calculate_slope(lr, ld))

\* The entry recorded for k: k points are masked out, none of them with a
\* smaller full-data residual than a point that is kept, the ones masked
\* out for k - 1 among them, and the slope and R2 are those of the fit on
\* the n - k points that are left
RecordedFor(k) ==
    LET e   == out_res.remove[k]
        lr  == Map(all_r, Log10)
        ld  == Map(all_d, Log10)
        n   == Len(all_r)
        fit == calculate_slope(Keep(lr, e.out, 1), Keep(ld, e.out, 1))
    IN  /\ e.out \subseteq 1..n
        /\ Cardinality(e.out) = k
        /\ \A i \in e.out, j \in (1..n) \ e.out :
             FullResiduals[i] >= FullResiduals[j]
        /\ k > 1 => out_res.remove[k - 1].out \subseteq e.out
        /\ Len(Keep(lr, e.out, 1)) = n - k
        /\ e.slope = fit.slope
        /\ e.r2 = fit.r2

\* The call has returned a dict with 'original' and an entry for every k
\* from 1 to n_remove
AllRecorded ==
    /\ out_res.done /\ ~out_res.raised
    /\ out_res.original = calculate_slope(Map(all_r, Log10), Map(all_d, Log10)).slope
    /\ Len(out_res.remove) = n_remove
    /\ \A k \in 1..n_remove : RecordedFor(k)

\* C19: outlier_sensitivity_test, for each k from 1 to n_remove, removes
\* exactly the k points with the largest absolute residuals of the original
\* full-data fit (computed once, so the removed sets are nested), refits on
\* the remaining n - k points and records the slope and R2 under 'remove_k'
\* and 'remove_k_r2' next to the 'original' slope.
C19_EveryK == OutlierTestCalled => AllRecorded

\* The same when at least two points are left after the last removal
C19_TwoPointsLeft ==
    OutlierTestCalled /\ n_remove <= Len(all_r) - 2 => AllRecorded

\* Otherwise: the entries up to the first k whose refit raises are as
\* described, and with nothing left to fit (k = n) the call always raises
C19_RaisesWhenNoneLeft ==
    OutlierTestCalled =>
      /\ \A k \in 1..Len(out_res.remove) : RecordedFor(k)
      /\ n_remove >= Len(all_r) => out_res.raised /\ bpc = "test_raised"

(***************************************************************************)
(* What a call of bootstrap_analysis leaves behind                         *)
(***************************************************************************)
\* bootstrap_analysis has returned (and outlier_sensitivity_test may have
\* run after it)
BootstrapReturned ==
    /\ script = "bootstrap_analysis"
    /\ bpc \in {"done", "tested", "test_raised", "end", "plot_raised"}

\* The arrays load_data built are what the caller still holds
InputsKept ==
    /\ all_r = AllR(agg_csv.rows)
    /\ all_d = AllD(agg_csv.rows)

\* The part on the arrays: neither function writes to all_r or all_d, and
\* outlier_sensitivity_test leaves the generator as it finds it
C20_InputsKept == BootstrapReturned => InputsKept

C20_OutlierTestPure == [][OutlierTest => UNCHANGED <<rng, all_r, all_d>>]_vars

\* C20: bootstrap_analysis and outlier_sensitivity_test are pure: a call
\* leaves all_r and all_d unchanged and leaves all process-global state
\* unchanged, the state of the global NumPy random generator included, as
\* the code that runs after the call observes it.
C20_Pure ==
    BootstrapReturned => InputsKept /\ rng = rng_before

\* What the code does to the generator: after the call it is the seed-42
\* generator advanced by the draws of the n_bootstrap resamples, whatever it
\* was before
C20_GeneratorReseeded ==
    BootstrapReturned => rng.seed = 42 /\ rng.pos >= n_bootstrap * Len(all_r)

(***************************************************************************)
(* The stages on an empty, absent or incomplete aggregate dataset          *)
(***************************************************************************)
\* The stages that test for an empty dataset: phase_analysis.main and the
\* two ZeroParam mains print and return before to_csv and before any chart.
C15_TestedStages ==
    /\ script = "phase_analysis" /\ ppc # "loop" /\ results = <<>>
         => ppc = "nodata" /\ written = {} /\ csv_cols = {}
    /\ script \in {"zeroparam_archive", "zeroparam_data"} /\ zpc # "loop"
         /\ zresults = <<>>
         => zpc = "nodata" /\ zwritten = {}

\* plot_scaling_law.main has read the table and finished its loop over the
\* data directory with no galaxy collected
ScalingEmpty ==
    /\ script = "plot_scaling_law"
    /\ {"Galaxy", "M"} \subseteq csv_cols
    /\ spc # "loop" /\ sidx > Len(files)
    /\ scaling_data = <<>>

\* C15: when no galaxy survives filtering, every dependent stage
\* (phase_analysis.main, the ZeroParam mains, plot_scaling_law.main) reports
\* and returns: it writes no CSV and no image and raises no exception from an
\* operation on the empty dataset.
C15_EmptyReported ==
    /\ C15_TestedStages
    /\ ScalingEmpty => spc # "raised" /\ written = {}

\* The stages downstream of the table, the table each one finds and the
\* columns its code indexes
Downstream == {"bootstrap_analysis", "plot_scaling_law", "plot_histogram"}

TableExists == IF script = "bootstrap_analysis" THEN agg_csv.exists
               ELSE csv_cols # {}

TableColumns == IF script = "bootstrap_analysis" THEN agg_csv.columns
                ELSE csv_cols

ColumnsRead == IF script = "bootstrap_analysis" THEN {"R", "D_eff"}
               ELSE IF script = "plot_scaling_law" THEN {"Galaxy", "M"}
               ELSE {"M"}

\* The stage has not got past reading the table: no resampling and no draw
\* from the generator, no fit, no galaxy collected, no file written
StoppedAtTable ==
    /\ script = "bootstrap_analysis" =>
         /\ bpc \in {"start", "nofile", "keyerror"}
         /\ boot_i = 0 /\ bootstrap_slopes = <<>> /\ indices = <<>>
         /\ rng = rng_before
         /\ ~boot_ret.returned /\ ~out_res.done
         /\ boot_written = {}
    /\ script = "plot_scaling_law" =>
         /\ spc \in {"start", "nofile", "raised"}
         /\ sidx = 1 /\ scaling_data = <<>>
         /\ ~scaling_fit.done
         /\ written = {}
    /\ script = "plot_histogram" =>
         /\ hpc \in {"start", "nofile", "error"}
         /\ ~hist.done
         /\ written = {}

\* C16 as stated: when the aggregate CSV is absent, or present but lacking
\* any of the columns Galaxy, M, R, D_eff, each downstream stage stops before
\* any fit or plot.
C16_AnyColumn ==
    script \in Downstream
    /\ (~TableExists \/ ~(CsvColumns \subseteq TableColumns))
    => StoppedAtTable

\* C16: when the aggregate CSV is absent, or present but lacking a column
\* the stage reads (R, D_eff for bootstrap_analysis.main; Galaxy, M for
\* plot_scaling_law.main; M for plot_histogram), the stage stops before any
\* fit or plot: no resampling, no image, no statistics file.  A table that
\* lacks only columns the stage does not read does not stop it at the table.
C16_ColumnsRead ==
    script \in Downstream =>
      /\ (~TableExists \/ ~(ColumnsRead \subseteq TableColumns)) => StoppedAtTable
      /\ TableExists /\ ColumnsRead \subseteq TableColumns =>
           /\ bpc \notin {"nofile", "keyerror"}
           /\ script = "plot_scaling_law" => spc \notin {"nofile"}
           /\ hpc \notin {"nofile", "error"}

\* bootstrap_analysis.main has stopped at df['D_eff'] of a table that
\* has the other three columns
C16_Witness ==
    /\ script = "bootstrap_analysis"
    /\ agg_csv.exists /\ agg_csv.columns = CsvColumns \ {"D_eff"}
    /\ bpc = "keyerror"

\* The stages of the pipeline that read or write the aggregate dataset
InitStages == InitOfPhase \/ InitOfDat \/ InitOfPlots \/ InitOfBoot
NextStages == NextPhase \/ ScalingStart \/ NextDat \/ NextBoot
SpecStages == InitStages /\ [][NextStages]_vars

Init == InitOfPhase \/ InitOfQics \/ InitOfDat \/ InitOfBoot \/ InitOfFit
          \/ InitOfPlots \/ InitOfUnit \/ InitOfLand
Next == NextPhase \/ ScalingStart \/ NextQics \/ NextDat \/ NextBoot \/ NextFit
          \/ NextUnit \/ NextLand
Spec == Init /\ [][Next]_vars
====
